---- MODULE Spec2Model ----
(***************************************************************************)
(* Model of the crop core of 5bands_labeler:                               *)
(*   src/src/core/image_cropper.py  (ImageCropper)                         *)
(*   src/src/utils/image_utils.py   (ImageUtils.validate_coordinates,      *)
(*                                   ImageUtils.calculate_crop_bounds)     *)
(* A request (the operation called and its arguments, together with what   *)
(* the file system will answer) is drawn by Init; one action per public    *)
(* operation runs the whole call and records what it returned, what it     *)
(* raised, what it printed and what it handed to the TIFF writer.          *)
(* Arrays are modelled by their shape, their dtype and, for a crop, the    *)
(* source bands and the row/column slices it was cut from.                 *)
(***************************************************************************)
EXTENDS Integers, Sequences, FiniteSets, TLC

VARIABLES pc, req, out, disk,
          log, source, cropper,
          selected_paths, selection_type, has_active_project, last_call,
          manager, projects_dir, history, logger

\* the call in progress: its position, its request, its outcome, the files written
call_vars == <<pc, req, out, disk>>
\* a session of calls on one ImageCropper: the calls made so far, the caller's
\* array and the attributes of the instance
session_vars == <<log, source, cropper>>
\* the FileSelector: its two fields, what has_active_project_callback answers,
\* and the last call made on it
selector_vars == <<selected_paths, selection_type, has_active_project, last_call>>

\* the ProjectManager: its fields, the directories under projects_dir, and
\* what has been done so far (the last call, the paths create_project returned,
\* the projects mark_crop_saved was called for, the directories deleted)
manager_vars == <<manager, projects_dir, history>>
\* the SessionLogger: its session_data and log file, with the calls made
logger_vars == <<logger>>

vars == <<call_vars, session_vars, selector_vars, manager_vars, logger_vars>>

(* ------------------------------ bounds -------------------------------- *)

\* largest extent of an axis of a generated array (bands, rows or columns)
MaxDim == 4
\* how far outside the largest image a requested center may lie
Margin == 1
\* how far crop_size may exceed the largest axis
Oversize == 1
\* how far below zero crop_size may lie
NegSize == 2

(* --------------------- scenarios of the specification ------------------ *)

\* spec section 8: 5-band image of shape (5,100,100)
ScenarioShape == <<5, 100, 100>>
ScenarioRequests ==
    { [center_x |-> 5,  center_y |-> 5,  crop_size |-> 20],
      [center_x |-> 50, center_y |-> 50, crop_size |-> 300] }

(* ------------------------------ helpers -------------------------------- *)

max(a, b) == IF a >= b THEN a ELSE b
min(a, b) == IF a <= b THEN a ELSE b
abs(a)    == IF a < 0 THEN 0 - a ELSE a

\* a half size rounded up instead of down
half_size_ceil(crop_size) == (crop_size + 1) \div 2

\* Python's crop_size // 2 (floor division)
half_size_of(crop_size) == crop_size \div 2

\* len(range(*slice(a, b).indices(n))): the extent numpy gives to [a:b] on an
\* axis of length n (negative indices count from the end, then both are clamped)
SliceIndex(i, n) == IF i < 0 THEN max(i + n, 0) ELSE min(i, n)
SliceLen(a, b, n) == max(0, SliceIndex(b, n) - SliceIndex(a, n))

NoBounds == <<>>
NoArray  == [shape |-> <<>>, dtype |-> "none", bands |-> <<>>, rows |-> <<>>, cols |-> <<>>]

(* ----------------------- ImageUtils (image_utils.py) ------------------- *)

\* ImageUtils.validate_coordinates: image_shape is (bands, height, width)
validate_coordinates(x, y, image_shape) ==
    IF Len(image_shape) # 3 THEN FALSE
    ELSE LET height == image_shape[2]
             width  == image_shape[3]
         IN  0 <= x /\ x < width /\ 0 <= y /\ y < height

\* the clamp with the high edges left unclamped
calculate_crop_bounds_unclamped(center_x, center_y, crop_size, image_shape) ==
    LET half_size == half_size_of(crop_size)
    IN  <<max(0, center_x - half_size), max(0, center_y - half_size),
          center_x + half_size, center_y + half_size>>

\* ImageUtils.calculate_crop_bounds: the naive clamp, (x1, y1, x2, y2)
calculate_crop_bounds(center_x, center_y, crop_size, image_shape) ==
    LET height    == image_shape[2]
        width     == image_shape[3]
        half_size == half_size_of(crop_size)
        x1 == max(0, center_x - half_size)
        y1 == max(0, center_y - half_size)
        x2 == min(width, center_x + half_size)
        y2 == min(height, center_y + half_size)
    IN  <<x1, y1, x2, y2>>

(* ----------------------- ImageCropper (image_cropper.py) --------------- *)

\* the shift without the final max(0, .) / min(length, .)
AdjustAxisNoClamp(center, crop_size, length) ==
    LET half_size == half_size_of(crop_size)
        lo0 == center - half_size
        hi0 == center + half_size
    IN  IF lo0 < 0 THEN <<0, hi0 + abs(lo0)>>
        ELSE IF hi0 > length THEN <<lo0 - (hi0 - length), length>>
        ELSE <<lo0, hi0>>

\* the low edge set to 0 without the deficit being added to the high edge
AdjustAxisNoShift(center, crop_size, length) ==
    LET half_size == half_size_of(crop_size)
        lo0 == center - half_size
        hi0 == center + half_size
        lo1 == IF lo0 < 0 THEN 0
               ELSE IF hi0 > length THEN lo0 - (hi0 - length)
               ELSE lo0
        hi1 == IF lo0 < 0 THEN hi0
               ELSE IF hi0 > length THEN length
               ELSE hi0
    IN  <<max(0, lo1), min(length, hi1)>>

\* one axis of _adjust_crop_bounds: the if / elif / (neither) on the ideal
\* edges, then the final max(0, .) / min(length, .)
AdjustAxis(center, crop_size, length) ==
    LET half_size == half_size_of(crop_size)
        lo0 == center - half_size
        hi0 == center + half_size
        lo1 == IF lo0 < 0 THEN 0
               ELSE IF hi0 > length THEN lo0 - (hi0 - length)
               ELSE lo0
        hi1 == IF lo0 < 0 THEN hi0 + abs(lo0)
               ELSE IF hi0 > length THEN length
               ELSE hi0
    IN  <<max(0, lo1), min(length, hi1)>>

\* both axes adjusted against the width
_adjust_crop_bounds_one_length(center_x, center_y, crop_size, img_width, img_height) ==
    LET xs == AdjustAxis(center_x, crop_size, img_width)
        ys == AdjustAxis(center_y, crop_size, img_width)
    IN  <<xs[1], ys[1], xs[2], ys[2]>>

\* ImageCropper._adjust_crop_bounds: (x1, y1, x2, y2)
_adjust_crop_bounds(center_x, center_y, crop_size, img_width, img_height) ==
    LET xs == AdjustAxis(center_x, crop_size, img_width)
        ys == AdjustAxis(center_y, crop_size, img_height)
    IN  <<xs[1], ys[1], xs[2], ys[2]>>


\* the band policy with preserve_bands ignored
extracted_bands_rgb(bands, preserve_bands) == min(3, bands)

\* the band policy of lines 77-82: every band, or the first min(3, bands)
extracted_bands(bands, preserve_bands) ==
    IF preserve_bands THEN bands ELSE min(3, bands)

\* the extraction of lines 76-82: image_data[:num_bands, y1:y2, x1:x2]
ExtractCrop(image, num_bands, bounds) ==
    LET height == image.shape[2]
        width  == image.shape[3]
        x1 == bounds[1]
        y1 == bounds[2]
        x2 == bounds[3]
        y2 == bounds[4]
    IN  [shape |-> <<num_bands, SliceLen(y1, y2, height), SliceLen(x1, x2, width)>>,
         dtype |-> image.dtype,
         bands |-> [i \in 1..num_bands |-> i - 1],
         rows  |-> <<SliceIndex(y1, height), SliceIndex(y2, height)>>,
         cols  |-> <<SliceIndex(x1, width), SliceIndex(x2, width)>>]

\* a resampling that leaves every band as PIL returns it (8 bits), without the
\* cast back of line 182
_resize_crop_8bit(crop_data, target_size) ==
    IF crop_data.shape[2] = target_size /\ crop_data.shape[3] = target_size
    THEN [exc |-> "none", array |-> crop_data]
    ELSE IF crop_data.shape[1] = 0 \/ crop_data.shape[2] = 0 \/ crop_data.shape[3] = 0
            \/ target_size < 1
    THEN [exc |-> "ValueError", array |-> NoArray]
    ELSE [exc |-> "none",
          array |-> [shape |-> <<crop_data.shape[1], target_size, target_size>>,
                     dtype |-> "uint8",
                     bands |-> crop_data.bands,
                     rows  |-> crop_data.rows,
                     cols  |-> crop_data.cols]]

\* ImageCropper._resize_crop. The identity case returns its argument. Otherwise
\* every band goes through PIL: an empty band has no min()/max() and PIL
\* refuses a target size below 1 (ValueError both); with no band at all
\* np.stack([]) raises ValueError. The result has the bands in their order and
\* the dtype of the input.
_resize_crop(crop_data, target_size) ==
    LET bands  == crop_data.shape[1]
        height == crop_data.shape[2]
        width  == crop_data.shape[3]
    IN  IF height = target_size /\ width = target_size
        THEN [exc |-> "none", array |-> crop_data]
        ELSE IF bands = 0 \/ height = 0 \/ width = 0 \/ target_size < 1
        THEN [exc |-> "ValueError", array |-> NoArray]
        ELSE [exc |-> "none",
              array |-> [shape |-> <<bands, target_size, target_size>>,
                         dtype |-> crop_data.dtype,
                         bands |-> crop_data.bands,
                         rows  |-> crop_data.rows,
                         cols  |-> crop_data.cols]]

\* the size test resampling only a crop that is too small
needs_resize_if_smaller(shape, crop_size) ==
    shape[2] < crop_size \/ shape[3] < crop_size

\* the size test of line 85
needs_resize(shape, crop_size) ==
    shape[2] # crop_size \/ shape[3] # crop_size

\* what the file system answers to _save_crop: the directory is made and the
\* file written, mkdir raises (the parent is under a regular file, or may
\* not be made), or tifffile.imwrite raises
SaveAnswers == {"saved", "mkdir_raises", "imwrite_raises"}

\* ImageCropper._save_crop (lines 190-203): mkdir of the parent (line 200),
\* then one tifffile.imwrite (line 203) that is not reached when mkdir
\* raises; both raise an OSError
_save_crop(crop_data, save_answer) ==
    [exc |-> IF save_answer = "saved" THEN "none" ELSE "OSError",
     writes |-> IF save_answer = "mkdir_raises" THEN 0 ELSE 1]

\* a handler that catches ValueError alone
except_value_error(exc) == exc = "ValueError"

\* the handler `except Exception` of crop_multispectral_image (line 93):
\* every exception raised in the body is caught
crop_except(exc) == TRUE

\* the handler `except Exception` of crop_from_file (line 244)
file_except(exc) == TRUE

\* the naive clamp of lines 55-59 (and 270-274): (x1, y1, x2, y2)
naive_clamp(center_x, center_y, crop_size, width, height) ==
    <<max(0, center_x - half_size_of(crop_size)),
      max(0, center_y - half_size_of(crop_size)),
      min(width, center_x + half_size_of(crop_size)),
      min(height, center_y + half_size_of(crop_size))>>

\* the test of lines 65 and 73: actual_width < crop_size or actual_height < crop_size
too_small(bounds, crop_size) ==
    bounds[3] - bounds[1] < crop_size \/ bounds[4] - bounds[2] < crop_size

\* what the try block of crop_multispectral_image has done when it ends:
\* the exception raised (or "none"), the stage reached, whether the bounds
\* were adjusted, the bounds, whether _resize_crop was invoked, the array
\* handed to _save_crop and the number of writes attempted
BodyResult(exc, stage, adjusted, bounds, resized, handed, writes) ==
    [exc |-> exc, stage |-> stage, adjusted |-> adjusted, bounds |-> bounds,
     resized |-> resized, handed |-> handed, writes |-> writes]

\* lines 88-91: _save_crop, then return True
crop_save(adjusted, bounds, resized, array, sv) ==
    BodyResult(sv.exc, IF sv.exc = "none" THEN "ok" ELSE "write",
               adjusted, bounds, resized, array, sv.writes)

\* lines 84-89: rs is what _resize_crop gave (or the crop itself)
crop_resized(adjusted, bounds, resized, rs, save_answer) ==
    IF rs.exc # "none"
    THEN BodyResult(rs.exc, "resize", adjusted, bounds, resized, NoArray, 0)
    ELSE crop_save(adjusted, bounds, resized, rs.array, _save_crop(rs.array, save_answer))

\* lines 84-86: resample the crop when it is not crop_size x crop_size
crop_extracted(adjusted, bounds, cropped, crop_size, save_answer) ==
    crop_resized(adjusted, bounds, needs_resize(cropped.shape, crop_size),
                 IF needs_resize(cropped.shape, crop_size)
                 THEN _resize_crop(cropped, crop_size)
                 ELSE [exc |-> "none", array |-> cropped],
                 save_answer)

\* lines 70-82: the second bounds test, then the extraction
crop_bounded(image, adjusted, bounds, crop_size, preserve_bands, save_answer) ==
    IF adjusted /\ too_small(bounds, crop_size)
    THEN BodyResult("ValueError", "bounds", TRUE, bounds, FALSE, NoArray, 0)
    ELSE crop_extracted(adjusted, bounds,
                        ExtractCrop(image, extracted_bands(image.shape[1], preserve_bands),
                                    bounds),
                        crop_size, save_answer)

\* lines 61-69: keep the naive clamp, or adjust it when it is too small
crop_clamped(image, naive, center_x, center_y, crop_size, preserve_bands, save_answer) ==
    crop_bounded(image, too_small(naive, crop_size),
                 IF too_small(naive, crop_size)
                 THEN _adjust_crop_bounds(center_x, center_y, crop_size,
                                          image.shape[3], image.shape[2])
                 ELSE naive,
                 crop_size, preserve_bands, save_answer)

\* the body of the try block of crop_multispectral_image, lines 48-91
crop_body(image, center_x, center_y, crop_size, preserve_bands, save_answer) ==
    IF Len(image.shape) # 3
    THEN BodyResult("ValueError", "shape", FALSE, NoBounds, FALSE, NoArray, 0)
    ELSE crop_clamped(image,
                      naive_clamp(center_x, center_y, crop_size,
                                  image.shape[3], image.shape[2]),
                      center_x, center_y, crop_size, preserve_bands, save_answer)

\* what a crop call leaves behind: ret is the value returned ("none" when the
\* call raised instead), raised the exception that left the call, printed
\* the diagnostic, reads and writes the numbers of imread and imwrite calls
CallResult(ret, raised, printed, r, reads) ==
    [ret |-> ret, raised |-> raised, printed |-> printed, stage |-> r.stage,
     adjusted |-> r.adjusted, bounds |-> r.bounds, resized |-> r.resized,
     handed |-> r.handed, reads |-> reads, writes |-> r.writes]

\* lines 91-95: return True, or the handler's print and return False
crop_handler(r) ==
    IF r.exc = "none" THEN CallResult("True", "none", <<>>, r, 0)
    ELSE IF crop_except(r.exc)
    THEN CallResult("False", "none", <<"Errore durante il crop", r.exc>>, r, 0)
    ELSE CallResult("none", r.exc, <<>>, r, 0)

\* ImageCropper.crop_multispectral_image: the try block and its handler
crop_multispectral_image(image, center_x, center_y, crop_size, preserve_bands, save_answer) ==
    crop_handler(crop_body(image, center_x, center_y, crop_size, preserve_bands, save_answer))

\* the shape normalisation of crop_from_file, lines 233-238
file_normalize(shape) ==
    IF Len(shape) = 2 THEN <<1, shape[1], shape[2]>>
    ELSE IF Len(shape) = 3 /\ shape[3] < shape[1] THEN <<shape[3], shape[1], shape[2]>>
    ELSE shape

\* line 230 failing: tifffile.imread raised
file_unread ==
    BodyResult("OSError", "read", FALSE, NoBounds, FALSE, NoArray, 0)

\* lines 240-246: r is what crop_multispectral_image left; an exception
\* leaving it meets the handler of crop_from_file
file_handler(r) ==
    IF r.raised = "none" THEN [r EXCEPT !.reads = 1]
    ELSE IF file_except(r.raised)
    THEN [r EXCEPT !.ret = "False", !.raised = "none", !.reads = 1,
                   !.printed = <<"Errore durante il caricamento del file", r.raised>>]
    ELSE [r EXCEPT !.reads = 1]

\* ImageCropper.crop_from_file: one tifffile.imread (read_ok is the file
\* system's answer), the normalisation, then crop_multispectral_image
crop_from_file(file, center_x, center_y, crop_size, preserve_bands, read_ok, save_answer) ==
    IF ~read_ok
    THEN IF file_except("OSError")
         THEN CallResult("False", "none",
                         <<"Errore durante il caricamento del file", "OSError">>,
                         file_unread, 1)
         ELSE CallResult("none", "OSError", <<>>, file_unread, 1)
    ELSE file_handler(
            crop_multispectral_image(
                [shape |-> file_normalize(file.shape), dtype |-> file.dtype],
                center_x, center_y, crop_size, preserve_bands, save_answer))

\* can_adjust taken from the naive clamp alone
crop_info_unadjusted(naive, adj, center_x, center_y, crop_size) ==
    [is_valid |-> ~too_small(naive, crop_size),
     can_adjust |-> ~too_small(naive, crop_size),
     original_bounds |-> naive,
     adjusted_bounds |-> naive,
     actual_size |-> <<naive[3] - naive[1], naive[4] - naive[2]>>,
     center |-> <<center_x, center_y>>,
     crop_size |-> crop_size]

\* lines 276-302 of get_crop_info: naive is the clamp, adj the bounds of
\* _adjust_crop_bounds when the clamp is too small and the clamp otherwise
crop_info(naive, adj, center_x, center_y, crop_size) ==
    [is_valid |-> ~too_small(naive, crop_size),
     can_adjust |-> IF too_small(naive, crop_size) THEN ~too_small(adj, crop_size)
                    ELSE TRUE,
     original_bounds |-> naive,
     adjusted_bounds |-> adj,
     actual_size |-> <<naive[3] - naive[1], naive[4] - naive[2]>>,
     center |-> <<center_x, center_y>>,
     crop_size |-> crop_size]

\* lines 269-292 of get_crop_info
crop_info_clamped(naive, center_x, center_y, crop_size, width, height) ==
    crop_info(naive,
              IF too_small(naive, crop_size)
              THEN _adjust_crop_bounds(center_x, center_y, crop_size, width, height)
              ELSE naive,
              center_x, center_y, crop_size)

\* ImageCropper.get_crop_info: image_shape is (bands, height, width)
get_crop_info(image_shape, center_x, center_y, crop_size) ==
    crop_info_clamped(naive_clamp(center_x, center_y, crop_size,
                                  image_shape[3], image_shape[2]),
                      center_x, center_y, crop_size, image_shape[3], image_shape[2])

(* ------------------------------ requests ------------------------------- *)

Dims    == 1..MaxDim
Centers == (0 - Margin)..(MaxDim + Margin - 1)
Sizes   == (0 - NegSize)..(MaxDim + Oversize)
DTypes  == {"uint8", "uint16"}

\* band-major arrays (bands, height, width)
Shapes3 == {<<b, h, w>> : b \in Dims, h \in Dims, w \in Dims}
\* arrays with a number of axes other than 3
Shapes2 == {<<h, w>> : h \in Dims, w \in Dims}
Shapes1 == {<<w>> : w \in Dims}

Request(op, shape, dtype, cx, cy, size, preserve) ==
    [op |-> op, shape |-> shape, dtype |-> dtype, center_x |-> cx,
     center_y |-> cy, crop_size |-> size, preserve_bands |-> preserve]

\* the two calls that take an array (or a file holding one)
ArrayOps == {"crop_multispectral_image", "crop_from_file"}
\* the two calls that take a shape only
ShapeOps == {"get_crop_info", "calculate_crop_bounds"}

NoOut == [op |-> "none"]

\* no session of calls is under way
NoSession ==
    /\ log = <<>>
    /\ source = NoArray
    /\ cropper = {}

\* FileSelector.__init__ (file_selector.py lines 34-35), with no project open
NoSelector ==
    /\ selected_paths = <<>>
    /\ selection_type = "none"
    /\ has_active_project = FALSE
    /\ last_call = [op |-> "none"]

\* None, for a project name or path (names and paths are tuples)
None == <<>>
\* project_metadata = {} (project_manager.py line 37)
EmptyMetadata == [json |-> "empty"]

\* ProjectManager.__init__ (project_manager.py lines 35-41) on an empty
\* projects_dir, nothing done yet
NoManager ==
    /\ manager = [current_project |-> None, current_project_path |-> None,
                  project_metadata |-> EmptyMetadata,
                  images_loaded |-> FALSE, crops_saved |-> FALSE]
    /\ projects_dir = {}
    /\ history = [last |-> [op |-> "none"], created |-> {}, marked |-> {},
                  loaded |-> {}, marked_current |-> FALSE,
                  deleted |-> {}, calls |-> 0]

\* no SessionLogger has been made
NoLogger == logger = [session_id |-> "none"]

(* ------------------------------ the system ----------------------------- *)

\* a request on a generated array
InitArray ==
    \E op \in ArrayOps, shape \in Shapes3 \cup Shapes2 \cup Shapes1, dtype \in DTypes,
       cx \in Centers, cy \in Centers, size \in Sizes, preserve \in BOOLEAN :
        req = Request(op, shape, dtype, cx, cy, size, preserve)

\* a request on a generated shape
InitShape ==
    \E op \in ShapeOps, shape \in Shapes3,
       cx \in Centers, cy \in Centers, size \in Sizes :
        req = Request(op, shape, "none", cx, cy, size, TRUE)

\* the scenarios of spec section 8, for every operation
InitScenario ==
    \E op \in ArrayOps \cup ShapeOps, s \in ScenarioRequests, preserve \in BOOLEAN :
        req = Request(op, ScenarioShape, IF op \in ArrayOps THEN "uint16" ELSE "none",
                      s.center_x, s.center_y, s.crop_size,
                      IF op \in ArrayOps THEN preserve ELSE TRUE)

Init ==
    /\ pc = "call"
    /\ (InitArray \/ InitShape \/ InitScenario)
    /\ out = NoOut
    /\ disk = <<>>
    /\ NoSession
    /\ NoSelector
    /\ NoManager
    /\ NoLogger

\* the call returns: its result is recorded and a crop that was written is
\* on disk
Return(r) ==
    /\ out' = r
    /\ disk' = IF r.stage = "ok" THEN Append(disk, r.handed) ELSE disk
    /\ pc' = "done"
    /\ UNCHANGED <<req, session_vars, selector_vars, manager_vars, logger_vars>>

\* a call of ImageCropper.crop_multispectral_image on an in-memory array
CropMultispectralImage ==
    /\ pc = "call"
    /\ req.op = "crop_multispectral_image"
    /\ \E save_answer \in SaveAnswers :
          Return(crop_multispectral_image([shape |-> req.shape, dtype |-> req.dtype],
                     req.center_x, req.center_y, req.crop_size,
                     req.preserve_bands, save_answer))

\* a call of ImageCropper.crop_from_file on a TIFF file holding req.shape
CropFromFile ==
    /\ pc = "call"
    /\ req.op = "crop_from_file"
    /\ \E read_ok \in BOOLEAN, save_answer \in SaveAnswers :
          Return(crop_from_file([shape |-> req.shape, dtype |-> req.dtype],
                     req.center_x, req.center_y, req.crop_size,
                     req.preserve_bands, read_ok, save_answer))

\* a call of ImageCropper.get_crop_info
GetCropInfo ==
    /\ pc = "call"
    /\ req.op = "get_crop_info"
    /\ out' = get_crop_info(req.shape, req.center_x, req.center_y, req.crop_size)
    /\ pc' = "done"
    /\ UNCHANGED <<req, disk, session_vars, selector_vars, manager_vars, logger_vars>>

\* a call of ImageUtils.calculate_crop_bounds
CalculateCropBounds ==
    /\ pc = "call"
    /\ req.op = "calculate_crop_bounds"
    /\ out' = [bounds |-> calculate_crop_bounds(req.center_x, req.center_y,
                                                req.crop_size, req.shape)]
    /\ pc' = "done"
    /\ UNCHANGED <<req, disk, session_vars, selector_vars, manager_vars, logger_vars>>

Next ==
    \/ CropMultispectralImage
    \/ CropFromFile
    \/ GetCropInfo
    \/ CalculateCropBounds

Spec == Init /\ [][Next]_vars

(* ------------------- ImageUtils: loading and display -------------------- *)

\* the axes of an array as it is stored in the file: 0, 1, 2, ...
FileAxes(shape) == [i \in 1..Len(shape) |-> i - 1]

\* the axis np.newaxis inserts comes from no axis of the file
NewAxis == 0 - 1

\* lines 40-46 of load_image: the shape of the array returned and, for each of
\* its axes, the axis of the file's array it is (np.transpose(a, (2, 0, 1)))
tiff_normalize(shape) ==
    IF Len(shape) = 2
    THEN [shape |-> <<1, shape[1], shape[2]>>, axes |-> <<NewAxis, 0, 1>>]
    ELSE IF Len(shape) = 3 /\ shape[3] < shape[1] /\ shape[3] <= 5
    THEN [shape |-> <<shape[3], shape[1], shape[2]>>, axes |-> <<2, 0, 1>>]
    ELSE [shape |-> shape, axes |-> FileAxes(shape)]

\* what load_image leaves behind: ret is "tuple" for (array, type) and "None"
\* otherwise; kind is the type returned with the array
LoadResult(ret, array, kind, printed, reads) ==
    [ret |-> ret, shape |-> array.shape, axes |-> array.axes, dtype |-> array.dtype,
     kind |-> kind, raised |-> "none", printed |-> printed, reads |-> reads]

NoLoaded == [shape |-> <<>>, axes |-> <<>>, dtype |-> "none"]

\* the handler `except Exception` of load_image (line 69)
load_except(exc) == TRUE

\* lines 69-71: the read raised exc
load_failed(exc) ==
    IF load_except(exc)
    THEN LoadResult("None", NoLoaded, "none", <<"Errore caricamento immagine", exc>>, 1)
    ELSE [LoadResult("none", NoLoaded, "none", <<>>, 1) EXCEPT !.raised = exc]

\* lines 35-48: a TIFF read by tifffile.imread, then normalised
load_tiff(file) ==
    LoadResult("tuple",
               [shape |-> tiff_normalize(file.shape).shape,
                axes  |-> tiff_normalize(file.shape).axes,
                dtype |-> file.dtype],
               "multispectral", <<>>, 1)

\* lines 50-64: a PNG/JPEG opened by PIL, converted to RGB (8 bits, rows x
\* columns x 3) and transposed to (3, rows, columns)
load_rgb(file) ==
    LoadResult("tuple",
               [shape |-> <<3, file.shape[1], file.shape[2]>>,
                axes  |-> <<2, 0, 1>>,
                dtype |-> "uint8"],
               "rgb", <<>>, 1)

\* ImageUtils.load_image: file.ext is Path(file_path).suffix.lower(), read_ok
\* the file system's answer to the read
load_image(file, read_ok) ==
    IF file.ext \in {".tif", ".tiff"}
    THEN IF read_ok THEN load_tiff(file) ELSE load_failed("OSError")
    ELSE IF file.ext \in {".png", ".jpg", ".jpeg"}
    THEN IF read_ok THEN load_rgb(file) ELSE load_failed("OSError")
    ELSE LoadResult("None", NoLoaded, "none",
                    <<"Formato file non supportato", file.ext>>, 0)

\* the values of a band (a 2-D array, flattened row by row), as a set
Pixels(band) == {band[i] : i \in 1..Len(band)}

\* the k-th smallest pixel of a non-empty band, k counted from 0
OrderStat(band, k) ==
    CHOOSE v \in Pixels(band) :
        /\ Cardinality({i \in 1..Len(band) : band[i] < v}) <= k
        /\ k < Cardinality({i \in 1..Len(band) : band[i] <= v})

\* np.percentile(band, q), times 100: the linear interpolation between the
\* two order statistics around the position q / 100 * (n - 1)
Percentile100(band, q) ==
    100 * OrderStat(band, (q * (Len(band) - 1)) \div 100)
    + (OrderStat(band, min(((q * (Len(band) - 1)) \div 100) + 1, Len(band) - 1))
       - OrderStat(band, (q * (Len(band) - 1)) \div 100))
      * ((q * (Len(band) - 1)) % 100)

\* what np.percentile does with (band, q): it refuses q outside [0, 100]
\* (ValueError); on an empty band it raises IndexError or returns NaN,
\* depending on the numpy release
PercentileOutcomes(band, q) ==
    IF q < 0 \/ q > 100 THEN {"ValueError"}
    ELSE IF Len(band) = 0 THEN {"IndexError", "nan"}
    ELSE {"value"}

\* a quotient num / den kept exact; den = 0 is a division by zero
Quotient(num, den) == <<num, den>>
Zero == Quotient(0, 1)

\* np.clip(x, 0, 1) of a quotient with a positive denominator
clip01(x) == Quotient(max(0, min(x[1], x[2])), x[2])

\* the quotient left as it is
unclipped(x) == x

\* np.zeros_like(band_data, dtype=np.float32)
zeros_like(band) == [i \in 1..Len(band) |-> Zero]

\* what normalize_band leaves behind: divided tells whether line 145 ran
NormResult(raised, printed, divided, dtype, values) ==
    [raised |-> raised, printed |-> printed, divided |-> divided,
     dtype |-> dtype, values |-> values]

\* a test that always takes the division
always_greater(band_max, band_min) == TRUE

\* the test of line 144: band_max > band_min
range_positive(band_max, band_min) == band_max > band_min

\* lines 144-148: band_min and band_max are the two percentiles times 100
normalize_values(band, band_min, band_max) ==
    IF range_positive(band_max, band_min)
    THEN NormResult("none", <<>>, TRUE, "float64",
                    [i \in 1..Len(band) |->
                        clip01(Quotient(100 * band[i] - band_min, band_max - band_min))])
    ELSE NormResult("none", <<>>, FALSE, "float32", zeros_like(band))

\* the handler `except Exception` of normalize_band (line 150)
normalize_except(exc) == TRUE

\* lines 150-152: the body raised exc
normalize_failed(band, exc) ==
    IF normalize_except(exc)
    THEN NormResult("none", <<"Errore normalizzazione banda", exc>>, FALSE,
                    "float32", zeros_like(band))
    ELSE NormResult(exc, <<>>, FALSE, "none", <<>>)

\* ImageUtils.normalize_band; low and high are what np.percentile did with the
\* two percentiles (a NaN percentile compares False at line 144)
normalize_band(band, percentile_range, low, high) ==
    IF low \notin {"value", "nan"} THEN normalize_failed(band, low)
    ELSE IF high \notin {"value", "nan"} THEN normalize_failed(band, high)
    ELSE IF low = "nan" \/ high = "nan"
    THEN NormResult("none", <<>>, FALSE, "float32", zeros_like(band))
    ELSE normalize_values(band, Percentile100(band, percentile_range[1]),
                          Percentile100(band, percentile_range[2]))

\* np.zeros_like(band_data): zeros of the dtype of the band
zeros_like_band(band) == [i \in 1..Len(band) |-> Zero]

\* CoordinateViewer._normalize_band (coordinate_viewer.py lines 894-903): the
\* percentiles 2 and 98, the same test and division, and no handler
viewer_normalize_band(band, low, high) ==
    IF low \notin {"value", "nan"} THEN NormResult(low, <<>>, FALSE, "none", <<>>)
    ELSE IF high \notin {"value", "nan"} THEN NormResult(high, <<>>, FALSE, "none", <<>>)
    ELSE IF low = "nan" \/ high = "nan"
    THEN NormResult("none", <<>>, FALSE, "band", zeros_like_band(band))
    ELSE IF Percentile100(band, 98) > Percentile100(band, 2)
    THEN NormResult("none", <<>>, TRUE, "float64",
                    [i \in 1..Len(band) |->
                        clip01(Quotient(100 * band[i] - Percentile100(band, 2),
                                        Percentile100(band, 98) - Percentile100(band, 2)))])
    ELSE NormResult("none", <<>>, FALSE, "band", zeros_like_band(band))

\* what a float division by zero leaves: 0 / 0 is NaN
NaN == Quotient(0, 0)
One == Quotient(1, 1)

\* np.clip(x, 0, 1) of a float quotient: x / 0 is +inf or -inf by the sign of
\* x and clips to 1 or 0, NaN stays NaN
clip_float(x) ==
    IF x[2] > 0 THEN clip01(x)
    ELSE IF x[2] < 0 THEN clip01(Quotient(0 - x[1], 0 - x[2]))
    ELSE IF x[1] > 0 THEN One
    ELSE IF x[1] < 0 THEN Zero
    ELSE NaN

\* SuperpixelGenerator._normalize_band (superpixel_utils.py lines 65-70): one
\* np.percentile call for both percentiles, then the division and the clip,
\* with no test of the range
superpixel_normalize_band(band, percentiles, got) ==
    IF got \notin {"value", "nan"} THEN NormResult(got, <<>>, FALSE, "none", <<>>)
    ELSE IF got = "nan" THEN NormResult("none", <<>>, TRUE, "float64", <<>>)
    ELSE NormResult("none", <<>>, TRUE, "float64",
                    [i \in 1..Len(band) |->
                        clip_float(Quotient(100 * band[i] - Percentile100(band, percentiles[1]),
                                            Percentile100(band, percentiles[2])
                                            - Percentile100(band, percentiles[1])))])

\* the default percentile_range of normalize_band (line 128)
DefaultPercentiles == <<2, 98>>

\* what create_rgb_composite leaves behind: ret is "array" or "None"; shape
\* and channels describe the array returned, channel k being [:, :, k]
CompositeResult(ret, raised, printed, stage, shape, channels) ==
    [ret |-> ret, raised |-> raised, printed |-> printed, stage |-> stage,
     shape |-> shape, channels |-> channels]

\* the handler `except Exception` of create_rgb_composite (line 198)
composite_except(exc) == TRUE

\* lines 198-200: the body raised exc at the given stage
composite_failed(exc, stage) ==
    IF composite_except(exc)
    THEN CompositeResult("None", "none", <<"Errore creazione composito RGB", exc>>,
                         stage, <<>>, <<>>)
    ELSE CompositeResult("none", exc, <<>>, stage, <<>>, <<>>)

\* a check of the red index alone
index_too_large_first(band_indices, bands) == band_indices[1] >= bands

\* the check of line 179: max(band_indices) >= bands
index_too_large(band_indices, bands) ==
    max(band_indices[1], max(band_indices[2], band_indices[3])) >= bands

\* image_data[idx] on the first axis: a negative index counts from the end
\* (numpy); an index outside -bands .. bands-1 raises IndexError
IndexInRange(idx, bands) == 0 - bands <= idx /\ idx < bands
BandAt(image, idx) ==
    image.data[(IF idx < 0 THEN idx + image.shape[1] ELSE idx) + 1]

\* the channels in the order blue, green, red
stack_reversed(red_band, green_band, blue_band) == <<blue_band, green_band, red_band>>

\* line 194: np.stack([red_band, green_band, blue_band], axis=2)
stack_rgb(red_band, green_band, blue_band) == <<red_band, green_band, blue_band>>

\* lines 188-191: a band as it enters the stack
composite_band(band, normalize) ==
    IF normalize
    THEN normalize_band(band, DefaultPercentiles, "value", "value").values
    ELSE band

\* lines 183-196, the indices being in range
composite_stacked(image, band_indices, normalize) ==
    CompositeResult("array", "none", <<>>, "ok",
                    <<image.shape[2], image.shape[3], 3>>,
                    stack_rgb(composite_band(BandAt(image, band_indices[1]), normalize),
                              composite_band(BandAt(image, band_indices[2]), normalize),
                              composite_band(BandAt(image, band_indices[3]), normalize)))

\* ImageUtils.create_rgb_composite
create_rgb_composite(image, band_indices, normalize) ==
    IF Len(image.shape) # 3 THEN composite_failed("ValueError", "shape")
    ELSE IF index_too_large(band_indices, image.shape[1])
    THEN composite_failed("ValueError", "index")
    ELSE IF \E k \in 1..3 : ~IndexInRange(band_indices[k], image.shape[1])
    THEN composite_failed("IndexError", "index")
    ELSE composite_stacked(image, band_indices, normalize)

(* ------------------- calls of the utilities, one at a time -------------- *)

\* largest extent of an axis of a raster file
MaxAxis == 7
\* largest number of pixels of a band handed to normalize_band
MaxPixels == 4
\* largest number of bands of an image handed to create_rgb_composite
MaxBands == 3

AxisSizes == 1..MaxAxis
FileShapes3 == {<<a, b, c>> : a \in AxisSizes, b \in AxisSizes, c \in AxisSizes}
FileShapes2 == {<<a, b>> : a \in AxisSizes, b \in AxisSizes}
FileShapes1 == {<<a>> : a \in AxisSizes}
TiffExts == {".tif", ".tiff"}
RgbExts == {".png", ".jpg", ".jpeg"}
\* the rasters PIL decodes: rows x columns, or rows x columns x channels
RgbShapes == {<<2, 3>>, <<3, 2, 3>>, <<3, 2, 4>>, <<1, 1>>}

\* pixel values of the bands generated: 42 is the constant of spec section 8
PixelValues == {0, 1, 42, 255}
Bands == UNION {[1..n -> PixelValues] : n \in 0..MaxPixels}
PercentileRanges == {DefaultPercentiles, <<0, 100>>, <<50, 50>>, <<98, 2>>, <<2, 101>>}

\* three bands of n pixels that differ from one another: a constant band, a
\* rising one and a falling one
SampleBand(kind, n) ==
    [i \in 1..n |-> IF kind = 1 THEN 42 ELSE IF kind = 2 THEN i ELSE 255 - 2 * i]
SampleKinds == 1..3
CompositeSizes == {<<1, 1>>, <<1, 2>>, <<2, 2>>}
CompositeIndices == (0 - MaxBands - 1)..MaxBands

\* an image of the given bands, each rows x columns
SampleImage(kinds, rows, columns) ==
    [shape |-> <<Len(kinds), rows, columns>>, dtype |-> "uint16",
     data |-> [k \in 1..Len(kinds) |-> SampleBand(kinds[k], rows * columns)]]
\* an array with two axes only
SampleFlat(kind, rows, columns) ==
    [shape |-> <<rows, columns>>, dtype |-> "uint16",
     data |-> SampleBand(kind, rows * columns)]

\* a crop as _resize_crop receives it: all the bands of a (b, h, w) array
WholeCrop(shape, dtype) ==
    [shape |-> shape, dtype |-> dtype,
     bands |-> [i \in 1..shape[1] |-> i - 1],
     rows  |-> <<0, shape[2]>>, cols |-> <<0, shape[3]>>]
ResizeDTypes == DTypes \cup {"float32"}

InitLoad ==
    \/ \E ext \in TiffExts, shape \in FileShapes3 \cup FileShapes2 \cup FileShapes1,
          dtype \in DTypes :
           req = [op |-> "load_image", ext |-> ext, shape |-> shape, dtype |-> dtype]
    \/ \E ext \in RgbExts \cup {".txt"}, shape \in RgbShapes :
           req = [op |-> "load_image", ext |-> ext, shape |-> shape, dtype |-> "uint8"]

\* crop_from_file on the same files, one crop of 2 x 2 around (1, 1)
InitFile ==
    \E shape \in FileShapes3 \cup FileShapes2 \cup FileShapes1, preserve \in BOOLEAN :
        req = Request("crop_from_file", shape, "uint16", 1, 1, 2, preserve)

InitNormalize ==
    \E band \in Bands, range \in PercentileRanges :
        req = [op |-> "normalize_band", band |-> band, percentile_range |-> range]

InitComposite ==
    \/ \E kinds \in UNION {[1..b -> SampleKinds] : b \in 1..MaxBands},
          size \in CompositeSizes,
          r \in CompositeIndices, g \in CompositeIndices, b \in CompositeIndices,
          normalize \in BOOLEAN :
           req = [op |-> "create_rgb_composite",
                  image |-> SampleImage(kinds, size[1], size[2]),
                  band_indices |-> <<r, g, b>>, normalize |-> normalize]
    \/ \E kind \in SampleKinds, size \in CompositeSizes, normalize \in BOOLEAN :
           req = [op |-> "create_rgb_composite",
                  image |-> SampleFlat(kind, size[1], size[2]),
                  band_indices |-> <<2, 1, 0>>, normalize |-> normalize]

InitResize ==
    \E shape \in Shapes3, dtype \in ResizeDTypes, size \in Sizes :
        req = [op |-> "_resize_crop", crop_data |-> WholeCrop(shape, dtype),
               target_size |-> size]

\* the normalizers of the viewer and of the superpixel generator take the band
\* alone
InitDisplayNormalize ==
    \E op \in {"CoordinateViewer._normalize_band", "SuperpixelGenerator._normalize_band"},
       band \in Bands :
        req = [op |-> op, band |-> band, percentile_range |-> DefaultPercentiles]

InitUtils ==
    /\ pc = "call"
    /\ (InitLoad \/ InitFile \/ InitNormalize \/ InitDisplayNormalize
        \/ InitComposite \/ InitResize)
    /\ out = NoOut
    /\ disk = <<>>
    /\ NoSession
    /\ NoSelector
    /\ NoManager
    /\ NoLogger

\* the call returns r and touches nothing else
Answer(r) ==
    /\ out' = r
    /\ pc' = "done"
    /\ UNCHANGED <<req, disk, session_vars, selector_vars, manager_vars, logger_vars>>

\* a call of ImageUtils.load_image
LoadImage ==
    /\ pc = "call"
    /\ req.op = "load_image"
    /\ \E read_ok \in BOOLEAN : Answer(load_image(req, read_ok))

\* a call of ImageUtils.normalize_band
NormalizeBand ==
    /\ pc = "call"
    /\ req.op = "normalize_band"
    /\ \E low \in PercentileOutcomes(req.band, req.percentile_range[1]),
          high \in PercentileOutcomes(req.band, req.percentile_range[2]) :
          Answer(normalize_band(req.band, req.percentile_range, low, high))

\* a call of CoordinateViewer._normalize_band
ViewerNormalizeBand ==
    /\ pc = "call"
    /\ req.op = "CoordinateViewer._normalize_band"
    /\ \E low \in PercentileOutcomes(req.band, 2), high \in PercentileOutcomes(req.band, 98) :
          Answer(viewer_normalize_band(req.band, low, high))

\* a call of SuperpixelGenerator._normalize_band
SuperpixelNormalizeBand ==
    /\ pc = "call"
    /\ req.op = "SuperpixelGenerator._normalize_band"
    /\ \E got \in PercentileOutcomes(req.band, req.percentile_range[1]) :
          Answer(superpixel_normalize_band(req.band, req.percentile_range, got))

\* a call of ImageUtils.create_rgb_composite
CreateRgbComposite ==
    /\ pc = "call"
    /\ req.op = "create_rgb_composite"
    /\ Answer(create_rgb_composite(req.image, req.band_indices, req.normalize))

\* a call of ImageCropper._resize_crop
ResizeCrop ==
    /\ pc = "call"
    /\ req.op = "_resize_crop"
    /\ Answer(_resize_crop(req.crop_data, req.target_size))

NextUtils ==
    \/ LoadImage
    \/ CropFromFile
    \/ NormalizeBand
    \/ ViewerNormalizeBand
    \/ SuperpixelNormalizeBand
    \/ CreateRgbComposite
    \/ ResizeCrop

SpecUtils == InitUtils /\ [][NextUtils]_vars

(* ------------- a session of calls on one ImageCropper ------------------- *)

\* the arrays a caller holds: three bands of 2 x 2, one band of 2 x 2, and an
\* array with two axes only
SessionImages ==
    {SampleImage(<<1, 2, 3>>, 2, 2), SampleImage(<<2>>, 2, 2), SampleFlat(2, 2, 2)}
\* crops around two centers: sizes that fit (2), exceed the image (3) and make
\* line 86 run (-2)
SessionCenters == {<<0, 0>>, <<1, 1>>}
SessionSizes == {0 - 2, 2, 3}
SessionTriples ==
    {<<2, 1, 0>>, <<0, 0, 0>>, <<0, 1, 3>>, <<3, 3, 3>>, <<0 - 1, 0, 0>>, <<0 - 4, 0, 0>>}

\* one call of the session: what was asked, what the file system answered and
\* what came back
SessionCall(request, save_answer, r) == [req |-> request, save_answer |-> save_answer, out |-> r]

InitSession ==
    /\ pc = "first"
    /\ req = [op |-> "none"]
    /\ out = NoOut
    /\ disk = <<>>
    /\ NoSession
    /\ NoSelector
    /\ NoManager
    /\ NoLogger

\* the call made with request returned r; source is the array the caller
\* passed to it
SessionReturn(request, save_answer, r) ==
    /\ req' = request
    /\ out' = r
    /\ log' = Append(log, SessionCall(request, save_answer, r))
    /\ source' = request.image
    /\ cropper' = cropper
    /\ pc' = IF pc = "first" THEN "second" ELSE "done"
    /\ UNCHANGED <<selector_vars, manager_vars, logger_vars>>

\* a call of crop_multispectral_image on the session's ImageCropper
SessionCrop ==
    /\ pc \in {"first", "second"}
    /\ \E image \in SessionImages, center \in SessionCenters, size \in SessionSizes,
          preserve \in BOOLEAN, save_answer \in SaveAnswers :
          /\ SessionReturn([op |-> "crop_multispectral_image", image |-> image,
                            center_x |-> center[1], center_y |-> center[2],
                            crop_size |-> size, preserve_bands |-> preserve],
                           save_answer,
                           crop_multispectral_image(image, center[1], center[2], size,
                                                    preserve, save_answer))
          /\ disk' = IF crop_multispectral_image(image, center[1], center[2], size,
                                                 preserve, save_answer).stage = "ok"
                     THEN Append(disk, crop_multispectral_image(image, center[1], center[2],
                                                 size, preserve, save_answer).handed)
                     ELSE disk

\* a call of ImageUtils.create_rgb_composite in the same session
SessionComposite ==
    /\ pc \in {"first", "second"}
    /\ \E image \in SessionImages, triple \in SessionTriples, normalize \in BOOLEAN :
          /\ SessionReturn([op |-> "create_rgb_composite", image |-> image,
                            band_indices |-> triple, normalize |-> normalize],
                           "none",
                           create_rgb_composite(image, triple, normalize))
          /\ UNCHANGED disk

NextSession ==
    \/ SessionCrop
    \/ SessionComposite

SpecSession == InitSession /\ [][NextSession]_vars

(* ------------------- FileSelector (file_selector.py) -------------------- *)

\* A path is <<directory, stem, suffix>> for a file and <<directory>> for a
\* folder. The file system: two files in the home folder, folder d1 with two
\* images and a text file, d2 with an image and a file whose suffix matches no
\* pattern, d3 with no image. Each listing is in the order sorted() gives.
FolderEntries(folder_path) ==
    IF folder_path = <<"d1">>
    THEN << <<"d1", "a", ".tif">>, <<"d1", "b", ".TIF">>, <<"d1", "notes", ".txt">> >>
    ELSE IF folder_path = <<"d2">>
    THEN << <<"d2", "c", ".png">>, <<"d2", "d", ".Tif">> >>
    ELSE IF folder_path = <<"d3">>
    THEN << <<"d3", "readme", ".txt">> >>
    ELSE <<>>
Folders == {<<"d1">>, <<"d2">>, <<"d3">>}
\* the files a dialog can return
Files == {<<"home", "f1", ".tif">>, <<"home", "f2", ".jpg">>, <<"d1", "a", ".tif">>}

\* os.path.isdir
isdir(path) == Len(path) = 1

\* the patterns of lines 253-257, matched with the case of the suffix
SupportedSuffixes ==
    {".tif", ".tiff", ".TIF", ".TIFF", ".png", ".PNG", ".jpg", ".JPG", ".jpeg", ".JPEG"}
Supported(path) == path[3] \in SupportedSuffixes

\* FileSelector._find_supported_image_files: the matches of every pattern,
\* sorted
_find_supported_image_files(folder_path) ==
    SelectSeq(FolderEntries(folder_path), Supported)

\* `path in paths`
Contains(paths, path) == \E i \in 1..Len(paths) : paths[i] = path

\* an append of every new path, already selected or not
append_all(paths, new_paths) == paths \o new_paths

\* the loops of lines 135-137, 149-151, 169-171 and 178-180: append each new
\* path that is not in the list yet
RECURSIVE append_new(_, _)
append_new(paths, new_paths) ==
    IF new_paths = <<>> THEN paths
    ELSE append_new(IF Contains(paths, Head(new_paths)) THEN paths
                    ELSE Append(paths, Head(new_paths)),
                    Tail(new_paths))

\* the two fields of a FileSelector
Selection(paths, type) == [selected_paths |-> paths, selection_type |-> type]

\* a folder selection left as it is
keep_folder(paths) == paths

\* lines 128-132 (and 162-164): a single selected folder is replaced by its
\* image files
expand_folder(paths) ==
    IF Len(paths) = 1 /\ isdir(paths[1])
    THEN _find_supported_image_files(paths[1])
    ELSE paths

\* files added to files with the type left as it was
merge_keeping_type(sel, merged) == Selection(merged, sel.selection_type)

\* lines 176-184: files added to files
merge_files(sel, merged) ==
    Selection(merged,
              IF sel.selection_type = "single_file" /\ Len(merged) > 1
              THEN "multiple_files" ELSE sel.selection_type)

\* a merge that puts the new paths in place of the selected ones
merge_replacing(sel, new_paths, new_type) == Selection(new_paths, new_type)

\* FileSelector._merge_selections
_merge_selections(sel, new_paths, new_type) ==
    IF sel.selection_type = "folder" /\ new_type # "folder"
    THEN Selection(append_new(expand_folder(sel.selected_paths), new_paths),
                   "multiple_files")
    ELSE IF new_type = "folder" /\ sel.selection_type # "folder"
    THEN Selection(append_new(sel.selected_paths,
                              _find_supported_image_files(new_paths[1])),
                   "multiple_files")
    ELSE IF sel.selection_type = "folder" /\ new_type = "folder"
    THEN Selection(append_new(IF Len(sel.selected_paths) = 1 /\ isdir(sel.selected_paths[1])
                              THEN _find_supported_image_files(sel.selected_paths[1])
                              ELSE <<>>,
                              _find_supported_image_files(new_paths[1])),
                   "multiple_files")
    ELSE merge_files(sel, append_new(sel.selected_paths, new_paths))

\* a call that merges whenever something is selected, project or not
add_paths_always_merging(sel, active, new_paths, new_type) ==
    IF new_paths = <<>> THEN sel
    ELSE IF sel.selected_paths # <<>> THEN _merge_selections(sel, new_paths, new_type)
    ELSE Selection(new_paths, new_type)

\* FileSelector._add_paths_to_selection; active is what
\* has_active_project_callback answers
_add_paths_to_selection(sel, active, new_paths, new_type) ==
    IF new_paths = <<>> THEN sel
    ELSE IF active /\ sel.selected_paths # <<>>
    THEN _merge_selections(sel, new_paths, new_type)
    ELSE Selection(new_paths, new_type)

\* FileSelector.update_preview, as far as the two fields go: line 329 turns a
\* "folder" selection that is not one folder into "multiple_files"
update_preview(sel) ==
    IF sel.selected_paths = <<>> THEN sel
    ELSE IF /\ sel.selection_type = "folder"
            /\ ~(Len(sel.selected_paths) = 1 /\ isdir(sel.selected_paths[1]))
    THEN Selection(sel.selected_paths, "multiple_files")
    ELSE sel

\* largest number of files picked in one dialog
MaxPick == 2

\* the lists a file dialog returns: files without repetition
PickLists ==
    {paths \in UNION {[1..n -> Files] : n \in 1..MaxPick} :
        \A i \in 1..Len(paths), j \in 1..Len(paths) : paths[i] = paths[j] => i = j}
SinglePicks == {<<file>> : file \in Files}
FolderPicks == {<<folder>> : folder \in Folders}
FileTypes == {"single_file", "multiple_files"}

\* the selector as it stands
Current == Selection(selected_paths, selection_type)

\* a call of the selector: its name, its arguments, the selection it found and
\* the answer of has_active_project_callback
SelectorCall(op, new_paths, new_type) ==
    [op |-> op, new_paths |-> new_paths, new_type |-> new_type,
     before |-> Current, active |-> has_active_project]

InitSelector ==
    /\ pc = "idle"
    /\ req = [op |-> "none"]
    /\ out = NoOut
    /\ disk = <<>>
    /\ NoSession
    /\ NoSelector
    /\ NoManager
    /\ NoLogger

\* the selector's fields become sel after the call recorded
Selected(sel, call) ==
    /\ selected_paths' = sel.selected_paths
    /\ selection_type' = sel.selection_type
    /\ last_call' = call
    /\ UNCHANGED <<has_active_project, call_vars, session_vars, manager_vars, logger_vars>>

\* _add_paths_to_selection called on its own, as test_file_selector_fix.py does
AddPathsToSelection ==
    /\ pc = "idle"
    /\ \/ \E new_type \in FileTypes, new_paths \in PickLists \cup {<<>>} :
             Selected(_add_paths_to_selection(Current, has_active_project, new_paths, new_type),
                      SelectorCall("_add_paths_to_selection", new_paths, new_type))
       \/ \E new_paths \in FolderPicks \cup {<<>>} :
             Selected(_add_paths_to_selection(Current, has_active_project, new_paths, "folder"),
                      SelectorCall("_add_paths_to_selection", new_paths, "folder"))

\* FileSelector.select_single_file, the dialog returning a file
SelectSingleFile ==
    /\ pc = "idle"
    /\ \E new_paths \in SinglePicks :
           Selected(update_preview(_add_paths_to_selection(Current, has_active_project,
                                                           new_paths, "single_file")),
                    SelectorCall("select_single_file", new_paths, "single_file"))

\* FileSelector.select_multiple_files, the dialog returning files
SelectMultipleFiles ==
    /\ pc = "idle"
    /\ \E new_paths \in PickLists :
           Selected(update_preview(_add_paths_to_selection(Current, has_active_project,
                                                           new_paths, "multiple_files")),
                    SelectorCall("select_multiple_files", new_paths, "multiple_files"))

\* FileSelector.select_folder, the dialog returning a folder: a folder with no
\* supported image is refused (lines 229-234)
SelectFolder ==
    /\ pc = "idle"
    /\ \E new_paths \in FolderPicks :
           Selected(IF _find_supported_image_files(new_paths[1]) = <<>> THEN Current
                    ELSE update_preview(_add_paths_to_selection(Current, has_active_project,
                                                                new_paths, "folder")),
                    SelectorCall("select_folder", new_paths, "folder"))

\* FileSelector.clear_selection
ClearSelection ==
    /\ pc = "idle"
    /\ Selected(update_preview(Selection(<<>>, "none")),
                SelectorCall("clear_selection", <<>>, "none"))

\* FileSelector.set_selection with the sources of a project: files under any
\* of the three types, or one folder
SetSelection ==
    /\ pc = "idle"
    /\ \/ \E paths \in PickLists, type \in FileTypes \cup {"folder"} :
             Selected(update_preview(Selection(paths, type)),
                      SelectorCall("set_selection", paths, type))
       \/ \E paths \in FolderPicks :
             Selected(update_preview(Selection(paths, "folder")),
                      SelectorCall("set_selection", paths, "folder"))

\* a project is opened or closed: has_active_project_callback changes its answer
ProjectChanged ==
    /\ pc = "idle"
    /\ has_active_project' = ~has_active_project
    /\ UNCHANGED <<selected_paths, selection_type, last_call, call_vars, session_vars,
                   manager_vars, logger_vars>>

NextSelector ==
    \/ AddPathsToSelection
    \/ SelectSingleFile
    \/ SelectMultipleFiles
    \/ SelectFolder
    \/ ClearSelection
    \/ SetSelection
    \/ ProjectChanged

SpecSelector == InitSelector /\ [][NextSelector]_vars

\* the selection operations a user reaches: the three dialogs and the clear
\* button, with projects opened and closed in between
NextDialogs ==
    \/ SelectSingleFile
    \/ SelectMultipleFiles
    \/ SelectFolder
    \/ ClearSelection
    \/ ProjectChanged

SpecDialogs == InitSelector /\ [][NextDialogs]_vars

(* ------------------ ProjectManager (project_manager.py) ---------------- *)
(* A project name is a tuple of characters and a project path the tuple    *)
(* of its directory name under projects_dir. projects_dir is the set of    *)
(* its entries: a name, a kind ("dir" or "file"), the content of           *)
(* project_metadata.json and the files of crops/ and originals/.           *)

\* the timestamps datetime.now().strftime("%Y%m%d_%H%M%S") can give: two
\* calls may fall into the same second
Timestamps == {"20260101_000000", "20260101_000001"}

\* c.isalnum() or c in ('-', '_') (line 60); the prefixes of the generated
\* names and the timestamps hold such characters only
isalnum(c) == c \in {"a", "b", "0", "1", "2", "3", "4", "5", "6", "7", "8", "9"}
safe_char(c) ==
    isalnum(c) \/ c \in {"-", "_"} \/ c \in {"labeling_project_", "project_"} \cup Timestamps

\* line 60: the characters of the name that are kept
sanitize(project_name) == SelectSeq(project_name, safe_char)

\* str(counter)
DigitChars == <<"0", "1", "2", "3", "4", "5", "6", "7", "8", "9">>
RECURSIVE str(_)
str(n) == IF n < 10 THEN <<DigitChars[n + 1]>>
          ELSE str(n \div 10) \o <<DigitChars[(n % 10) + 1]>>

\* f"{safe_name}_{counter}" (lines 68-70)
numbered(safe_name, counter) == safe_name \o <<"_">> \o str(counter)

\* Path.exists() of projects_dir / name in the directory dir
exists(dir, name) == \E e \in dir : e.name = name
Entry(dir, name) == CHOOSE e \in dir : e.name = name
is_dir(dir, name) == exists(dir, name) /\ Entry(dir, name).kind = "dir"

\* lines 67-69: the first counter from 1 whose name is free
first_free(dir, safe_name) ==
    CHOOSE n \in 1..(Cardinality(dir) + 1) :
        /\ ~exists(dir, numbered(safe_name, n))
        /\ \A m \in 1..(n - 1) : exists(dir, numbered(safe_name, m))

\* the counter not advanced past 1
free_name_first_counter(dir, safe_name) ==
    IF exists(dir, safe_name) THEN numbered(safe_name, 1) ELSE safe_name

\* lines 63-71: the name of the new directory
free_name(dir, safe_name) ==
    IF exists(dir, safe_name) THEN numbered(safe_name, first_free(dir, safe_name))
    ELSE safe_name

\* lines 56-62: the name given or generated, sanitized, or generated again
\* when nothing is left of it
safe_name_of(project_name, now) ==
    IF sanitize(IF project_name = None THEN <<"labeling_project_", now>> ELSE project_name) = <<>>
    THEN <<"project_", now>>
    ELSE sanitize(IF project_name = None THEN <<"labeling_project_", now>> ELSE project_name)

\* Path.is_file() and Path.is_dir() of a source path (the files and folders of
\* the file selector; any other path does not exist)
source_is_file(path) ==
    path \in Files \/ \E folder \in Folders : Contains(FolderEntries(folder), path)
source_is_dir(path) == path \in Folders

\* ProjectManager._analyze_source_paths (lines 123-154): a single path that
\* is neither a file nor a directory leaves the info without a type
_analyze_source_paths(source_paths) ==
    IF source_paths = <<>>
    THEN [type |-> "none", count |-> 0, paths |-> <<>>]
    ELSE [type |-> IF Len(source_paths) = 1
                   THEN IF source_is_file(source_paths[1]) THEN "single_file"
                        ELSE IF source_is_dir(source_paths[1]) THEN "folder"
                        ELSE "absent"
                   ELSE "multiple_files",
          count |-> Len(source_paths),
          paths |-> source_paths]

\* the metadata of lines 89-107
NewMetadata(project_name, safe_name, source_paths) ==
    [json |-> "dict", project_name |-> project_name, safe_name |-> safe_name,
     source_info |-> _analyze_source_paths(source_paths),
     crops_kind |-> "list", crops |-> <<>>, total_crops |-> 0,
     last_accessed |-> FALSE]

\* no project_metadata.json in the directory
NoFile == [json |-> "missing"]

\* what the file system answers to `with open(path, 'w') as f: json.dump(...)`:
\* the file is written, open raises and the file is as it was, or open has
\* emptied the file and json.dump raises before the text is complete
WriteAnswers == {"written", "open_raises", "dump_raises"}

\* a file that open(path, 'w') emptied and json.dump did not complete: what
\* it holds is not JSON
Truncated == [json |-> "invalid"]

NewEntry(name, metadata) ==
    [name |-> name, kind |-> "dir", metadata |-> metadata, crops |-> {}, originals |-> {}]

\* what a call of the manager leaves: its fields, the directory, the value
\* returned and the exception that left the call
Done(mgr, dir, ret, raised) ==
    [manager |-> mgr, projects_dir |-> dir, ret |-> ret, raised |-> raised]

\* lines 73-121 for the directory name chosen: the directories are made, then
\* the metadata file is written (a write that raises leaves the call, with
\* no metadata file or with one that is cut short) and the fields are set
create_named(mgr, dir, project_name, safe_name, source_paths, write_answer) ==
    IF write_answer = "open_raises"
    THEN Done(mgr, dir \cup {NewEntry(safe_name, NoFile)}, None, "OSError")
    ELSE IF write_answer = "dump_raises"
    THEN Done(mgr, dir \cup {NewEntry(safe_name, Truncated)}, None, "OSError")
    ELSE Done([current_project |-> safe_name, current_project_path |-> safe_name,
               project_metadata |-> NewMetadata(project_name, safe_name, source_paths),
               images_loaded |-> FALSE, crops_saved |-> FALSE],
              dir \cup {NewEntry(safe_name,
                                 NewMetadata(project_name, safe_name, source_paths))},
              safe_name, "none")

\* ProjectManager.create_project
create_project(mgr, dir, project_name, source_paths, now, write_answer) ==
    create_named(mgr, dir,
                 IF project_name = None THEN <<"labeling_project_", now>> ELSE project_name,
                 free_name(dir, safe_name_of(project_name, now)),
                 source_paths, write_answer)

\* the directory with the metadata file of one project rewritten
Rewritten(dir, name, metadata) ==
    {IF e.name = name THEN [e EXCEPT !.metadata = metadata] ELSE e : e \in dir}

\* ProjectManager._save_metadata (lines 284-294): a write that raises is
\* printed; open raising (always so when the project directory is gone)
\* leaves the file as it was, json.dump raising leaves it cut short
_save_metadata(mgr, dir, write_answer) ==
    IF mgr.current_project_path = None THEN dir
    ELSE IF ~is_dir(dir, mgr.current_project_path) \/ write_answer = "open_raises" THEN dir
    ELSE IF write_answer = "dump_raises"
    THEN Rewritten(dir, mgr.current_project_path, Truncated)
    ELSE Rewritten(dir, mgr.current_project_path, mgr.project_metadata)

\* the crop recorded without the statistics being raised
crops_appended_only(metadata, crop_record) ==
    [metadata EXCEPT !.crops = Append(@, crop_record)]

\* lines 220-221: the crop appended and total_crops raised
crops_appended(metadata, crop_record) ==
    [metadata EXCEPT !.crops = Append(@, crop_record), !.total_crops = @ + 1]

\* ProjectManager.add_crop (lines 193-225); metadata whose "crops" is not a
\* list (a project loaded from a foreign file) makes append raise
add_crop(mgr, dir, crop_path, write_answer) ==
    IF mgr.current_project = None THEN Done(mgr, dir, None, "none")
    ELSE IF mgr.project_metadata.crops_kind # "list"
    THEN Done(mgr, dir, None, "AttributeError")
    ELSE Done([mgr EXCEPT !.project_metadata = crops_appended(@, [crop_path |-> crop_path])],
              _save_metadata([mgr EXCEPT !.project_metadata =
                                 crops_appended(@, [crop_path |-> crop_path])],
                             dir, write_answer),
              None, "none")

\* ProjectManager.mark_crop_saved and mark_images_loaded (lines 243-249)
mark_crop_saved(mgr) == [mgr EXCEPT !.crops_saved = TRUE]
mark_images_loaded(mgr) == [mgr EXCEPT !.images_loaded = TRUE]

\* glob("*.tif") + glob("*.tiff") of a folder: file names are (stem, suffix)
tiff_files(files) == {f \in files : f[2] \in {".tif", ".tiff"}}

\* the test of crops_saved left out
cleanup_ignoring_flag(mgr, dir) ==
    IF mgr.current_project_path = None THEN dir
    ELSE IF ~is_dir(dir, mgr.current_project_path) THEN dir
    ELSE IF tiff_files(Entry(dir, mgr.current_project_path).crops) # {} THEN dir
    ELSE IF Entry(dir, mgr.current_project_path).originals # {} THEN dir
    ELSE dir \ {Entry(dir, mgr.current_project_path)}

\* ProjectManager.cleanup_empty_project (lines 251-282): the directory after
\* the call; rmtree of a path that is no directory raises and is caught
cleanup_empty_project(mgr, dir) ==
    IF mgr.current_project_path = None \/ mgr.crops_saved THEN dir
    ELSE IF ~is_dir(dir, mgr.current_project_path) THEN dir
    ELSE IF tiff_files(Entry(dir, mgr.current_project_path).crops) # {} THEN dir
    ELSE IF Entry(dir, mgr.current_project_path).originals # {} THEN dir
    ELSE dir \ {Entry(dir, mgr.current_project_path)}

\* lines 366-381: the metadata were read as a dictionary md; the fields are
\* set and the file rewritten before crops_saved is computed, so a "crops"
\* entry that has no len() raises with the first fields already changed
load_dict(mgr, dir, path, md, write_answer) ==
    IF md.crops_kind = "list"
    THEN Done([current_project |-> IF md.safe_name = None THEN path ELSE md.safe_name,
               current_project_path |-> path,
               project_metadata |-> [md EXCEPT !.last_accessed = TRUE],
               images_loaded |-> FALSE,
               crops_saved |-> Len(md.crops) > 0],
              _save_metadata([mgr EXCEPT !.current_project_path = path,
                                         !.project_metadata = [md EXCEPT !.last_accessed = TRUE]],
                             dir, write_answer),
              "True", "none")
    ELSE Done([current_project |-> IF md.safe_name = None THEN path ELSE md.safe_name,
               current_project_path |-> path,
               project_metadata |-> [md EXCEPT !.last_accessed = TRUE],
               images_loaded |-> FALSE,
               crops_saved |-> mgr.crops_saved],
              _save_metadata([mgr EXCEPT !.current_project_path = path,
                                         !.project_metadata = [md EXCEPT !.last_accessed = TRUE]],
                             dir, write_answer),
              "False", "none")

\* a load that leaves crops_saved as it was
load_keeping_flag(mgr, dir, path, write_answer) ==
    IF ~is_dir(dir, path) THEN Done(mgr, dir, "False", "none")
    ELSE IF Entry(dir, path).metadata.json # "dict" THEN Done(mgr, dir, "False", "none")
    ELSE Done([load_dict(mgr, dir, path, Entry(dir, path).metadata, write_answer).manager
                  EXCEPT !.crops_saved = mgr.crops_saved],
              load_dict(mgr, dir, path, Entry(dir, path).metadata, write_answer).projects_dir,
              load_dict(mgr, dir, path, Entry(dir, path).metadata, write_answer).ret, "none")

\* ProjectManager.load_project (lines 338-384): a missing path, a path that is
\* no directory and a missing metadata file return False (lines 351-359); a
\* file that is not JSON makes json.load raise and a JSON value that is no
\* dictionary makes metadata.get raise, both before any field is set
load_project(mgr, dir, path, write_answer) ==
    IF ~is_dir(dir, path) THEN Done(mgr, dir, "False", "none")
    ELSE IF Entry(dir, path).metadata.json # "dict" THEN Done(mgr, dir, "False", "none")
    ELSE load_dict(mgr, dir, path, Entry(dir, path).metadata, write_answer)

\* every new path appended, listed or not
all_paths_joined(current_paths, new_source_paths) == current_paths \o new_source_paths

\* lines 425-428: the current paths, then each new path not yet listed
all_paths_of(current_paths, new_source_paths) == append_new(current_paths, new_source_paths)

\* lines 430-436: the source_info of the combined paths
updated_source_info(all_paths, new_source_paths) ==
    [type |-> _analyze_source_paths(all_paths).type,
     count |-> _analyze_source_paths(all_paths).count,
     paths |-> all_paths,
     added_images |-> Len(new_source_paths)]

\* ProjectManager.add_source_images (lines 407-448)
add_source_images(mgr, dir, new_source_paths, write_answer) ==
    IF mgr.current_project = None \/ new_source_paths = <<>>
    THEN Done(mgr, dir, "False", "none")
    ELSE Done([mgr EXCEPT !.project_metadata.source_info =
                  updated_source_info(all_paths_of(@.paths, new_source_paths),
                                      new_source_paths)],
              _save_metadata([mgr EXCEPT !.project_metadata.source_info =
                                 updated_source_info(all_paths_of(@.paths, new_source_paths),
                                                     new_source_paths)],
                             dir, write_answer),
              "True", "none")

(* --------------------- calls of the ProjectManager --------------------- *)

\* how many calls a run of the manager makes (and a run that only handles
\* source paths), how many directories projects_dir may hold, how many crops a project may record and how many
\* paths a list of source paths may hold
MaxCalls == 4
MaxSourceCalls == 3
MaxProjects == 3
MaxCrops == 2
MaxSources == 2

\* the names asked for: "a", "a_1" (the name the counter gives a second "a"),
\* " a" (sanitized to "a") and " " (nothing left of it)
ProjectNames == {<<"a">>, <<"a", "_", "1">>, <<" ", "a">>, <<" ">>}

\* the timestamps a call may read: only a generated name depends on the clock
Clock(project_name) ==
    IF project_name = None \/ sanitize(project_name) = <<>> THEN Timestamps
    ELSE {"20260101_000000"}

\* source paths: a file, a folder and a path that does not exist
SourcePaths == {<<"home", "f1", ".tif">>, <<"d1">>, <<"gone", "x", ".tif">>}
\* lists of source paths as the file selector hands them over: no path twice
SourceLists ==
    {paths \in UNION {[1..n -> SourcePaths] : n \in 0..MaxSources} :
        \A i \in 1..Len(paths), j \in 1..Len(paths) : paths[i] = paths[j] => i = j}

\* the files crops/ may receive, and the file originals/ may receive
CropFiles == {<<"crop", ".tif">>, <<"crop", ".tiff">>, <<"notes", ".txt">>}
OriginalFiles == {<<"image", ".jpg">>}
CropPaths == {<<"crops", "crop", ".tif">>}

\* metadata files not written by this manager: one that is not JSON, a JSON
\* list, a dictionary whose "crops" is null, and the dictionaries of earlier
\* projects with no crop and with one crop recorded
ForeignMetadata ==
    {[json |-> "invalid"], [json |-> "list"],
     [json |-> "dict", project_name |-> <<"old">>, safe_name |-> None,
      source_info |-> _analyze_source_paths(<<>>),
      crops_kind |-> "null", crops |-> <<>>, total_crops |-> 0, last_accessed |-> FALSE],
     [json |-> "dict", project_name |-> <<"old">>, safe_name |-> <<"old">>,
      source_info |-> _analyze_source_paths(<<>>),
      crops_kind |-> "list", crops |-> <<>>, total_crops |-> 0, last_accessed |-> FALSE],
     [json |-> "dict", project_name |-> <<"old">>, safe_name |-> <<"old">>,
      source_info |-> _analyze_source_paths(<< <<"d1">> >>),
      crops_kind |-> "list", crops |-> <<[crop_path |-> <<"crops", "crop", ".tif">>]>>,
      total_crops |-> 1, last_accessed |-> FALSE]}

\* what projects_dir holds when the manager is made: nothing, a plain file
\* called "a", or a directory "old" with or without a metadata file
InitialDirectories ==
    {{}, {[name |-> <<"a">>, kind |-> "file", metadata |-> NoFile,
           crops |-> {}, originals |-> {}]}}
    \cup {{NewEntry(<<"old">>, md)} : md \in ForeignMetadata \cup {NoFile}}

\* ProjectManager.__init__ on a projects_dir that may hold earlier entries
InitProject ==
    /\ pc = "idle"
    /\ req = [op |-> "none"]
    /\ out = NoOut
    /\ disk = <<>>
    /\ NoSession
    /\ NoSelector
    /\ NoLogger
    /\ manager = [current_project |-> None, current_project_path |-> None,
                  project_metadata |-> EmptyMetadata,
                  images_loaded |-> FALSE, crops_saved |-> FALSE]
    /\ projects_dir \in InitialDirectories
    /\ history = [last |-> [op |-> "none"], created |-> {}, marked |-> {},
                  loaded |-> {}, marked_current |-> FALSE,
                  deleted |-> {}, calls |-> 0]

\* a call of the manager: its name and argument, what it returned or raised
ManagerCall(op, arg, r) ==
    [op |-> op, arg |-> arg, ret |-> r.ret, raised |-> r.raised]

\* the projects that load_project loaded with at least one recorded crop
LoadedWithCrops(r, call) ==
    IF call.op = "load_project" /\ call.ret = "True"
       /\ Len(r.manager.project_metadata.crops) > 0
    THEN history.loaded \cup {call.arg}
    ELSE history.loaded

\* whether mark_crop_saved was called since the current project last became
\* the current one (create_project and load_project set the current project)
MarkedCurrent(r, call) ==
    IF call.op = "mark_crop_saved" THEN manager.current_project_path # None
    ELSE IF call.op \in {"create_project", "load_project"} /\ r.manager # manager
    THEN FALSE
    ELSE history.marked_current

\* the call ends with r: the fields and the directory are as it left them
Managed(r, call, created, marked) ==
    /\ manager' = r.manager
    /\ projects_dir' = r.projects_dir
    /\ history' = [last |-> call, created |-> created, marked |-> marked,
                   loaded |-> LoadedWithCrops(r, call),
                   marked_current |-> MarkedCurrent(r, call),
                   deleted |-> history.deleted
                               \cup ({e.name : e \in projects_dir}
                                     \ {e.name : e \in r.projects_dir}),
                   calls |-> history.calls + 1]
    /\ UNCHANGED <<call_vars, session_vars, selector_vars, logger_vars>>

\* create_project returned r
Created(project_name, r) ==
    Managed(r, ManagerCall("create_project", project_name, r),
            IF r.raised = "none" THEN history.created \cup {r.ret} ELSE history.created,
            history.marked)

\* a call of create_project without source paths
CreateProject ==
    /\ pc = "idle"
    /\ history.calls < MaxCalls
    /\ Cardinality(projects_dir) < MaxProjects
    /\ \E project_name \in ProjectNames \cup {None} :
          \E now \in Clock(project_name) :
              Created(project_name,
                      create_project(manager, projects_dir, project_name, <<>>, now, "written"))

\* a call of create_project with the paths selected, the metadata file
\* written or not
CreateProjectFrom ==
    /\ pc = "idle"
    /\ history.calls < MaxSourceCalls
    /\ Cardinality(projects_dir) < MaxProjects
    /\ \E source_paths \in SourceLists, write_answer \in WriteAnswers :
          Created(<<"a">>,
                  create_project(manager, projects_dir, <<"a">>, source_paths,
                                 "20260101_000000", write_answer))

\* a call of load_project on a name under projects_dir, present or not
LoadProject ==
    /\ pc = "idle"
    /\ history.calls < MaxCalls
    /\ \E path \in {e.name : e \in projects_dir} \cup {<<"nowhere">>}, write_answer \in WriteAnswers :
          Managed(load_project(manager, projects_dir, path, write_answer),
                  ManagerCall("load_project", path,
                              load_project(manager, projects_dir, path, write_answer)),
                  history.created, history.marked)

\* a call of add_crop
AddCrop ==
    /\ pc = "idle"
    /\ history.calls < MaxCalls
    /\ (manager.current_project # None /\ manager.project_metadata.crops_kind = "list")
          => Len(manager.project_metadata.crops) < MaxCrops
    /\ \E crop_path \in CropPaths, write_answer \in WriteAnswers :
          Managed(add_crop(manager, projects_dir, crop_path, write_answer),
                  ManagerCall("add_crop", crop_path,
                              add_crop(manager, projects_dir, crop_path, write_answer)),
                  history.created, history.marked)

\* a call of add_source_images
AddSourceImages ==
    /\ pc = "idle"
    /\ history.calls < MaxSourceCalls
    /\ \E new_source_paths \in SourceLists, write_answer \in WriteAnswers :
          Managed(add_source_images(manager, projects_dir, new_source_paths, write_answer),
                  ManagerCall("add_source_images", new_source_paths,
                              add_source_images(manager, projects_dir, new_source_paths,
                                                write_answer)),
                  history.created, history.marked)

\* a call of mark_crop_saved
MarkCropSaved ==
    /\ pc = "idle"
    /\ history.calls < MaxCalls
    /\ Managed(Done(mark_crop_saved(manager), projects_dir, "None", "none"),
               ManagerCall("mark_crop_saved", None,
                           Done(mark_crop_saved(manager), projects_dir, "None", "none")),
               history.created,
               IF manager.current_project_path = None THEN history.marked
               ELSE history.marked \cup {manager.current_project_path})

\* a call of mark_images_loaded
MarkImagesLoaded ==
    /\ pc = "idle"
    /\ history.calls < MaxCalls
    /\ Managed(Done(mark_images_loaded(manager), projects_dir, "None", "none"),
               ManagerCall("mark_images_loaded", None,
                           Done(mark_images_loaded(manager), projects_dir, "None", "none")),
               history.created, history.marked)

\* a call of cleanup_empty_project
CleanupEmptyProject ==
    /\ pc = "idle"
    /\ history.calls < MaxCalls
    /\ Managed(Done(manager, cleanup_empty_project(manager, projects_dir), "None", "none"),
               ManagerCall("cleanup_empty_project", None,
                           Done(manager, cleanup_empty_project(manager, projects_dir),
                                "None", "none")),
               history.created, history.marked)

\* a file appears in crops/ or originals/ of the current project (a crop the
\* cropper saved, an image copied there)
FileSaved ==
    /\ pc = "idle"
    /\ history.calls < MaxCalls
    /\ is_dir(projects_dir, manager.current_project_path)
    /\ Entry(projects_dir, manager.current_project_path).crops = {}
    /\ Entry(projects_dir, manager.current_project_path).originals = {}
    /\ \/ \E file \in CropFiles :
             projects_dir' = {IF e.name = manager.current_project_path
                              THEN [e EXCEPT !.crops = {file}] ELSE e : e \in projects_dir}
       \/ \E file \in OriginalFiles :
             projects_dir' = {IF e.name = manager.current_project_path
                              THEN [e EXCEPT !.originals = {file}] ELSE e : e \in projects_dir}
    /\ history' = [history EXCEPT !.last = [op |-> "file_saved"], !.calls = @ + 1]
    /\ UNCHANGED <<manager, call_vars, session_vars, selector_vars, logger_vars>>

NextProject ==
    \/ CreateProject
    \/ LoadProject
    \/ AddCrop
    \/ MarkCropSaved
    \/ MarkImagesLoaded
    \/ CleanupEmptyProject
    \/ FileSaved

\* the life of projects: created, loaded, filled with crops, cleaned up
SpecProject == InitProject /\ [][NextProject]_vars

NextSources ==
    \/ CreateProjectFrom
    \/ AddSourceImages

\* ProjectManager.__init__ on a projects_dir that is empty or holds a plain
\* file called "a"
InitSources ==
    /\ InitProject
    /\ \A e \in projects_dir : e.kind = "file"

\* the source paths of a project: given at its creation, added to later
SpecSources == InitSources /\ [][NextSources]_vars

(* ------------------- SessionLogger (session_logger.py) ------------------ *)
(* The logger is a record of the fields of a SessionLogger: session_data is *)
(* kept as its parts (end_time, activities, statistics), log_file is what   *)
(* the log file holds, and calls lists the log_activity calls made so far.  *)

\* the project folders a logger may be given: one that exists, one that does not
LoggerProjects == {<<"p">>, <<"gone">>}
project_exists(project_path) == project_path = <<"p">>

\* the statistics a new logger starts with (lines 40-46)
NewStatistics ==
    [images_loaded |-> 0, crops_created |-> 0, view_mode_changes |-> 0,
     coordinates_selected |-> 0, files_processed |-> {}, files_kind |-> "set"]

\* what json.dump writes: the session data with files_processed as a list
Snapshot(lg) ==
    [json |-> "dict", end_time |-> lg.end_time, activities |-> lg.activities,
     statistics |-> lg.statistics]

\* SessionLogger._save_log (lines 223-242): the copy is shallow, so turning
\* files_processed into a list changes the logger's own statistics, and that
\* happens before the file is opened; open raising leaves the file as it
\* was, json.dump raising leaves it cut short, and both are printed
_save_log(lg, write_answer) ==
    IF lg.log_file_path = None THEN lg
    ELSE [lg EXCEPT !.statistics.files_kind = "list",
                    !.log_file = IF write_answer = "written"
                                 THEN Snapshot([lg EXCEPT !.statistics.files_kind = "list"])
                                 ELSE IF write_answer = "dump_raises" THEN Truncated
                                 ELSE @]

\* lines 111-124 for a type: the counter is raised before the details are read
counted(stats, activity_type) ==
    IF activity_type = "image_loaded" THEN [stats EXCEPT !.images_loaded = @ + 1]
    ELSE IF activity_type = "crop_created" THEN [stats EXCEPT !.crops_created = @ + 1]
    ELSE IF activity_type = "view_mode_changed" THEN [stats EXCEPT !.view_mode_changes = @ + 1]
    ELSE IF activity_type = "coordinate_selected"
    THEN [stats EXCEPT !.coordinates_selected = @ + 1]
    ELSE stats

\* statistics that are counted only while files_processed is still a set
update_statistics_while_set(stats, activity_type, details) ==
    IF stats.files_kind # "set" THEN [stats |-> stats, raised |-> "none"]
    ELSE IF activity_type = "image_loaded" /\ details.kind # "dict"
    THEN [stats |-> counted(stats, activity_type), raised |-> "AttributeError"]
    ELSE IF activity_type = "image_loaded" /\ details.file_path # None
    THEN [stats |-> [counted(stats, activity_type)
                        EXCEPT !.files_processed = @ \cup {details.file_path}],
          raised |-> "none"]
    ELSE [stats |-> counted(stats, activity_type), raised |-> "none"]

\* SessionLogger._update_statistics (lines 103-124): files_processed is made a
\* set again, the counter of the type is raised, and the file of a loaded
\* image is added; details that are no dictionary make details.get raise
_update_statistics(stats, activity_type, details) ==
    IF activity_type = "image_loaded" /\ details.kind # "dict"
    THEN [stats |-> counted([stats EXCEPT !.files_kind = "set"], activity_type),
          raised |-> "AttributeError"]
    ELSE IF activity_type = "image_loaded" /\ details.file_path # None
    THEN [stats |-> [counted([stats EXCEPT !.files_kind = "set"], activity_type)
                        EXCEPT !.files_processed = @ \cup {details.file_path}],
          raised |-> "none"]
    ELSE [stats |-> counted([stats EXCEPT !.files_kind = "set"], activity_type),
          raised |-> "none"]

\* SessionLogger.log_activity (lines 75-101): the activity is appended, the
\* statistics updated and the log saved; when the update raises nothing is saved
log_activity(lg, activity_type, details, write_answer) ==
    IF _update_statistics(lg.statistics, activity_type, details).raised # "none"
    THEN [lg EXCEPT !.activities = Append(@, [type |-> activity_type, details |-> details]),
                    !.statistics = _update_statistics(lg.statistics, activity_type,
                                                      details).stats,
                    !.raised = _update_statistics(lg.statistics, activity_type,
                                                  details).raised]
    ELSE _save_log([lg EXCEPT !.activities = Append(@, [type |-> activity_type,
                                                         details |-> details]),
                              !.statistics = _update_statistics(lg.statistics, activity_type,
                                                                details).stats,
                              !.raised = "none"],
                   write_answer)

\* the details of the activities the logger itself logs
OwnDetails == [kind |-> "dict", file_path |-> None]

\* SessionLogger.setup_log_file (lines 52-73): the log is written twice, by
\* _save_log (line 66) and by the log_activity of session_start, and the file
\* system answers each write on its own
setup_log_file(lg, first_answer, second_answer) ==
    IF lg.project_path = None \/ ~project_exists(lg.project_path) THEN lg
    ELSE log_activity(_save_log([lg EXCEPT !.log_file_path = <<lg.project_path, lg.session_id>>],
                                first_answer),
                      "session_start", OwnDetails, second_answer)

\* SessionLogger.__init__ (lines 19-50)
new_logger(project_path, first_answer, second_answer) ==
    setup_log_file([session_id |-> "s1", project_path |-> project_path,
                    log_file_path |-> None, end_time |-> FALSE,
                    activities |-> <<>>, statistics |-> NewStatistics,
                    log_file |-> NoFile, calls |-> <<>>, raised |-> "none"],
                   first_answer, second_answer)

\* SessionLogger.set_project_path (lines 259-265)
set_project_path(lg, project_path, first_answer, second_answer) ==
    setup_log_file([lg EXCEPT !.project_path = project_path, !.raised = "none"],
                   first_answer, second_answer)

\* SessionLogger.end_session (lines 196-221): files_processed becomes a list
\* before the closing activity is logged; the log is written by that
\* log_activity and once more at the end (line 221), each write answered on
\* its own
end_session(lg, first_answer, second_answer) ==
    _save_log(log_activity([lg EXCEPT !.end_time = TRUE,
                                      !.statistics.files_kind = "list"],
                           "session_end", OwnDetails, first_answer),
              second_answer)

(* ------------------------ calls of the SessionLogger --------------------- *)

\* most activities one session logs
MaxActivities == 4

\* the types the log_* methods pass to log_activity
ActivityTypes ==
    {"image_loaded", "crop_created", "view_mode_changed", "coordinate_selected",
     "project_action", "error"}

\* the details logged: of a loaded image its file (or none), or a value that
\* is no dictionary
DetailsOf(activity_type) ==
    IF activity_type = "image_loaded"
    THEN {[kind |-> "dict", file_path |-> file_path] :
              file_path \in {None, <<"home", "f1", ".tif">>, <<"home", "f2", ".jpg">>}}
         \cup {[kind |-> "str"]}
    ELSE {OwnDetails}

\* the session_start that setup_log_file logs when the project folder exists
StartLogged(project_path) ==
    IF project_path # None /\ project_exists(project_path)
    THEN << [type |-> "session_start", details |-> OwnDetails] >>
    ELSE <<>>

InitLogger ==
    /\ pc = "idle"
    /\ req = [op |-> "none"]
    /\ out = NoOut
    /\ disk = <<>>
    /\ NoSession
    /\ NoSelector
    /\ NoManager
    /\ \E project_path \in LoggerProjects \cup {None},
          first_answer \in WriteAnswers, second_answer \in WriteAnswers :
          logger = [new_logger(project_path, first_answer, second_answer)
                       EXCEPT !.calls = StartLogged(project_path)]

\* the logger becomes lg, with the log_activity calls made added to the record
Logged(lg, made) ==
    /\ logger' = [lg EXCEPT !.calls = logger.calls \o made]
    /\ UNCHANGED <<call_vars, session_vars, selector_vars, manager_vars>>

\* a call of log_activity, directly or through one of the log_* methods
LogActivity ==
    /\ pc = "idle"
    /\ Len(logger.activities) < MaxActivities
    /\ \E activity_type \in ActivityTypes, write_answer \in WriteAnswers :
          \E details \in DetailsOf(activity_type) :
              Logged(log_activity(logger, activity_type, details, write_answer),
                     << [type |-> activity_type, details |-> details] >>)

\* a call of set_project_path
SetProjectPath ==
    /\ pc = "idle"
    /\ Len(logger.activities) < MaxActivities
    /\ \E project_path \in LoggerProjects \cup {None},
          first_answer \in WriteAnswers, second_answer \in WriteAnswers :
          Logged(set_project_path(logger, project_path, first_answer, second_answer),
                 StartLogged(project_path))

\* a call of end_session
EndSession ==
    /\ pc = "idle"
    /\ Len(logger.activities) < MaxActivities
    /\ \E first_answer \in WriteAnswers, second_answer \in WriteAnswers :
          Logged(end_session(logger, first_answer, second_answer),
                 << [type |-> "session_end", details |-> OwnDetails] >>)

NextLogger ==
    \/ LogActivity
    \/ SetProjectPath
    \/ EndSession

SpecLogger == InitLogger /\ [][NextLogger]_vars



(* ------------------------------- claims -------------------------------- *)

Returned(op) == pc = "done" /\ req.op = op

\* the (bands, height, width) array the cropper works on: what crop_from_file
\* makes of the file's array, the argument itself otherwise
Image == IF req.op = "crop_from_file" THEN file_normalize(req.shape) ELSE req.shape
Height == Image[2]
Width  == Image[3]

CenterInside == validate_coordinates(req.center_x, req.center_y, Image)

\* a box that does not leave the image: 0 <= x1, x2 <= width, 0 <= y1, y2 <= height
Inside(b) == 0 <= b[1] /\ b[3] <= Width /\ 0 <= b[2] /\ b[4] <= Height
\* a box of exactly size x size
Exact(b, size) == b[3] - b[1] = size /\ b[4] - b[2] = size
\* 0 <= x1 <= x2 <= width and 0 <= y1 <= y2 <= height
Ordered(b) == Inside(b) /\ b[1] <= b[3] /\ b[2] <= b[4]
\* 0 <= x1 < x2 <= width and 0 <= y1 < y2 <= height
NonEmpty(b) == Inside(b) /\ b[1] < b[3] /\ b[2] < b[4]

\* the crop was cut (the bounds check passed)
Sliced == out.stage \in {"resize", "write", "ok"}
\* the crop reached _save_crop
Handed == out.stage \in {"write", "ok"}

\* C1: for an image at least crop_size wide and high and a center inside it
\* whose naive clamp is too small, _adjust_crop_bounds returns a box of exactly
\* crop_size x crop_size inside the image. Stated for crop_size >= 1.
C1_AdjustedBoxExact ==
    (/\ Returned("get_crop_info")
     /\ req.crop_size >= 1
     /\ Width >= req.crop_size /\ Height >= req.crop_size
     /\ CenterInside
     /\ ~out.is_valid)
    => (Exact(out.adjusted_bounds, req.crop_size) /\ Inside(out.adjusted_bounds))

\* C2: when a crop call returns True, the array handed to _save_crop (and
\* written) is (b, crop_size, crop_size)
C2_SavedShapeExact ==
    (/\ pc = "done" /\ req.op \in ArrayOps
     /\ out.ret = "True")
    => (/\ Len(out.handed.shape) = 3
        /\ out.handed.shape[2] = req.crop_size
        /\ out.handed.shape[3] = req.crop_size
        /\ disk = <<out.handed>>)

\* a crop next to an edge, cut from adjusted bounds, was saved
C2_Witness ==
    /\ Returned("crop_multispectral_image")
    /\ out.ret = "True" /\ out.adjusted
    /\ req.crop_size = 2 /\ req.shape[2] # req.shape[3]

\* C3: when crop_size exceeds the width or the height, the crop fails for every
\* center (False, can_adjust = False) and no bounds computed leave the axis
C3_OversizeInfeasible ==
    (/\ pc = "done"
     /\ Len(Image) = 3
     /\ (req.crop_size > Width \/ req.crop_size > Height))
    => (/\ req.op \in ArrayOps =>
              /\ out.ret = "False"
              /\ out.stage \in {"bounds", "read"}
              /\ out.stage = "bounds" =>
                    /\ Inside(out.bounds)
                    /\ out.bounds[3] - out.bounds[1] <= Width
                    /\ out.bounds[4] - out.bounds[2] <= Height
              /\ out.writes = 0 /\ disk = <<>>
        /\ req.op = "get_crop_info" =>
              /\ ~out.can_adjust /\ ~out.is_valid
              /\ Inside(out.original_bounds) /\ Inside(out.adjusted_bounds)
              /\ out.adjusted_bounds[3] - out.adjusted_bounds[1] <= Width
              /\ out.adjusted_bounds[4] - out.adjusted_bounds[2] <= Height
        /\ req.op = "calculate_crop_bounds" => Inside(out.bounds))

\* the scenario of spec section 8: 100x100, center (50,50), size 300
C3_Witness ==
    /\ Returned("crop_multispectral_image")
    /\ req.shape = ScenarioShape
    /\ req.center_x = 50 /\ req.center_y = 50 /\ req.crop_size = 300
    /\ out.ret = "False" /\ out.stage = "bounds"

\* C4 as stated: for a center strictly inside the image and crop_size // 2 <=
\* min(width, height) // 2 the naive clamp is exactly crop_size x crop_size, so
\* nothing is adjusted and is_valid holds. Stated for an even crop_size >= 2,
\* where the half-size truncation plays no part, and for centers off the
\* border pixels.
C4_NaiveClampExact ==
    (/\ pc = "done"
     /\ req.op \in {"get_crop_info", "crop_multispectral_image"}
     /\ Len(Image) = 3
     /\ req.crop_size >= 2 /\ req.crop_size % 2 = 0
     /\ 0 < req.center_x /\ req.center_x < Width - 1
     /\ 0 < req.center_y /\ req.center_y < Height - 1
     /\ half_size_of(req.crop_size) <= min(Width, Height) \div 2)
    => (/\ req.op = "get_crop_info" =>
              /\ Exact(out.original_bounds, req.crop_size)
              /\ out.is_valid
              /\ out.adjusted_bounds = out.original_bounds
        /\ req.op = "crop_multispectral_image" => ~out.adjusted)

\* the center is at least crop_size // 2 away from every edge
FarFromEdges ==
    LET half == half_size_of(req.crop_size)
    IN  /\ half <= req.center_x /\ req.center_x <= Width - half
        /\ half <= req.center_y /\ req.center_y <= Height - half

IdealBox ==
    LET half == half_size_of(req.crop_size)
    IN  <<req.center_x - half, req.center_y - half,
          req.center_x + half, req.center_y + half>>

\* C4 amended: for a center at least crop_size // 2 away from every edge the
\* naive clamp is the ideal box [center - half, center + half] and
\* adjusted_bounds equals original_bounds; for an even crop_size the box is
\* exactly crop_size x crop_size, is_valid holds and the crop is cut from it
\* without adjustment; for an odd crop_size is_valid is False
C4_FarFromEdgesExact ==
    (/\ pc = "done"
     /\ req.op \in {"get_crop_info", "crop_multispectral_image"}
     /\ Len(Image) = 3
     /\ req.crop_size >= 1
     /\ FarFromEdges)
    => (/\ req.op = "get_crop_info" =>
              /\ out.original_bounds = IdealBox
              /\ out.adjusted_bounds = out.original_bounds
              /\ out.is_valid <=> (req.crop_size % 2 = 0)
              /\ out.is_valid => Exact(out.original_bounds, req.crop_size)
        /\ (req.op = "crop_multispectral_image" /\ req.crop_size % 2 = 0) =>
              /\ ~out.adjusted
              /\ Handed
              /\ out.bounds = IdealBox
              /\ Exact(out.bounds, req.crop_size))

\* an even crop in the middle of an image, reported valid
C4_Witness ==
    /\ Returned("get_crop_info")
    /\ req.crop_size = 2 /\ FarFromEdges
    /\ req.center_x = 1 /\ req.center_y = 2
    /\ out.is_valid

\* C5: a crop call returns True only if the center lies inside the image.
\* Stated for crop_size >= 1.
C5_SuccessImpliesCenterInside ==
    (/\ pc = "done" /\ req.op \in ArrayOps
     /\ req.crop_size >= 1
     /\ out.ret = "True")
    => CenterInside


\* C6 as stated: for crop_size > 0 every bounds tuple produced (the bounds a
\* crop is cut with, original_bounds, adjusted_bounds, the result of
\* calculate_crop_bounds) has 0 <= x1 < x2 <= width and 0 <= y1 < y2 <= height,
\* for every center
C6_BoundsNonEmpty ==
    (/\ pc = "done"
     /\ Len(Image) = 3
     /\ req.crop_size > 0)
    => (/\ (req.op \in ArrayOps /\ Sliced) => NonEmpty(out.bounds)
        /\ req.op = "get_crop_info" =>
              NonEmpty(out.original_bounds) /\ NonEmpty(out.adjusted_bounds)
        /\ req.op = "calculate_crop_bounds" => NonEmpty(out.bounds))

\* C6 amended: for crop_size > 0, the bounds a crop is cut with have
\* 0 <= x1 < x2 <= width and 0 <= y1 < y2 <= height for every center; the result
\* of _adjust_crop_bounds has 0 <= x1 <= x2 <= width and 0 <= y1 <= y2 <= height
\* for every center; the naive clamp (original_bounds, calculate_crop_bounds)
\* has the same when the center is inside the image; and each of these boxes
\* is non-empty when crop_size >= 2
C6_BoundsOrdered ==
    (/\ pc = "done"
     /\ Len(Image) = 3
     /\ req.crop_size > 0)
    => LET ok(b) == Ordered(b) /\ (req.crop_size >= 2 => NonEmpty(b))
       IN  /\ (req.op \in ArrayOps /\ Sliced) => NonEmpty(out.bounds)
           /\ (req.op \in ArrayOps /\ out.stage = "bounds") => ok(out.bounds)
           /\ (req.op = "get_crop_info" /\ ~out.is_valid) => ok(out.adjusted_bounds)
           /\ (req.op = "get_crop_info" /\ CenterInside) =>
                 ok(out.original_bounds) /\ ok(out.adjusted_bounds)
           /\ (req.op = "calculate_crop_bounds" /\ CenterInside) => ok(out.bounds)

\* the naive clamp of a center on the last column, cut by the right edge
C6_Witness ==
    /\ Returned("calculate_crop_bounds")
    /\ CenterInside
    /\ req.crop_size = 4
    /\ req.center_x = Width - 1
    /\ out.bounds[3] = Width /\ out.bounds[3] - out.bounds[1] = 3

\* C7: for an odd crop_size on an image at least crop_size wide and high the
\* slice differs from crop_size, _resize_crop is invoked and the crop reaches
\* _save_crop with a crop_size x crop_size array
C7_OddSizeResized ==
    (/\ pc = "done" /\ req.op = "crop_multispectral_image"
     /\ Len(Image) = 3
     /\ req.crop_size >= 1 /\ req.crop_size % 2 = 1
     /\ Width >= req.crop_size /\ Height >= req.crop_size
     /\ CenterInside)
    => (/\ out.resized
        /\ Handed
        /\ out.handed.shape[2] = req.crop_size
        /\ out.handed.shape[3] = req.crop_size)

\* the first scenario of spec section 8: (5,100,100), center (5,5), size 20
Scenario8 ==
    /\ pc = "done"
    /\ req.shape = ScenarioShape
    /\ req.center_x = 5 /\ req.center_y = 5 /\ req.crop_size = 20

\* C8 as stated: in that scenario the naive clamp is (0,0)-(20,15), the
\* adjustment gives (0,0)-(20,20), the crop is feasible and has shape (5,20,20)
C8_ScenarioAsStated ==
    Scenario8 =>
       /\ req.op = "calculate_crop_bounds" =>
             out.bounds \in {<<0, 0, 20, 15>>, <<0, 0, 15, 20>>}
       /\ req.op = "get_crop_info" =>
             /\ out.original_bounds \in {<<0, 0, 20, 15>>, <<0, 0, 15, 20>>}
             /\ out.adjusted_bounds = <<0, 0, 20, 20>>
             /\ out.can_adjust

\* C8 amended: in that scenario the naive clamp is (0,0)-(15,15), the
\* adjustment gives (0,0)-(20,20), the crop is feasible and the crop handed to
\* _save_crop has shape (5,20,20)
C8_Scenario ==
    Scenario8 =>
       /\ req.op = "calculate_crop_bounds" => out.bounds = <<0, 0, 15, 15>>
       /\ req.op = "get_crop_info" =>
             /\ out.original_bounds = <<0, 0, 15, 15>>
             /\ ~out.is_valid
             /\ out.adjusted_bounds = <<0, 0, 20, 20>>
             /\ out.can_adjust
       /\ (req.op \in ArrayOps /\ out.stage # "read") =>
             /\ out.adjusted /\ out.bounds = <<0, 0, 20, 20>>
             /\ Handed /\ ~out.resized
             /\ req.preserve_bands => out.handed.shape = <<5, 20, 20>>
             /\ out.stage = "ok" => out.ret = "True"

\* the scenario's crop was saved with all five bands
C8_Witness ==
    /\ Scenario8
    /\ req.op = "crop_multispectral_image" /\ req.preserve_bands
    /\ out.ret = "True"
    /\ disk = <<out.handed>>

\* C9: the crop handed to _save_crop holds every band of the image when
\* preserve_bands is true and the first min(3, bands) bands when it is false;
\* an RGB-only request on a 1-band or 2-band image is not an error
C9_BandPolicy ==
    (/\ pc = "done" /\ req.op \in ArrayOps
     /\ Len(Image) = 3
     /\ out.stage # "read")
    => LET bands == Image[1]
           kept  == IF req.preserve_bands THEN bands
                    ELSE IF bands < 3 THEN bands ELSE 3
       IN  /\ Handed =>
                 /\ out.handed.shape[1] = kept
                 /\ out.handed.bands = [i \in 1..kept |-> i - 1]
           \* the band policy fails no request: a call that does not reach
           \* _save_crop failed on its bounds or in _resize_crop
           /\ ~Handed => out.stage \in {"bounds", "resize"}

\* an RGB-only crop of a 1-band image was saved with its one band
C9_Witness ==
    /\ Returned("crop_multispectral_image")
    /\ ~req.preserve_bands /\ req.shape[1] = 1
    /\ out.ret = "True"
    /\ out.handed.bands = <<0>>

\* C10: the crop calls never raise; every failure is returned as False; the
\* file is read at most once and the crop written at most once
C10_NoRaise ==
    (pc = "done" /\ req.op \in ArrayOps)
    => (/\ out.raised = "none"
        /\ out.ret \in {"True", "False"}
        /\ out.ret = "True" <=> out.stage = "ok"
        /\ out.ret = "False" => out.printed # <<>>
        /\ out.reads <= 1 /\ out.writes <= 1
        /\ req.op = "crop_multispectral_image" => out.reads = 0
        /\ Len(disk) = (IF out.ret = "True" THEN 1 ELSE 0))

\* a write failure inside crop_multispectral_image was reported as False
C10_Witness ==
    /\ Returned("crop_multispectral_image")
    /\ out.stage = "write"
    /\ out.ret = "False" /\ out.writes = 1

(* ----------------------- claims on the utilities ------------------------ *)

\* the rule of spec section 6: a 3-axis raster whose last axis is smaller than
\* its first and at most 5 is rows x columns x bands
RowMajor(shape) == Len(shape) = 3 /\ shape[3] < shape[1] /\ shape[3] <= 5
\* the (bands, rows, columns) shape that rule gives to a raster
BandMajor(shape) ==
    IF Len(shape) = 2 THEN <<1, shape[1], shape[2]>>
    ELSE IF RowMajor(shape) THEN <<shape[3], shape[1], shape[2]>>
    ELSE shape

\* C12: load_image (for a TIFF) and crop_from_file both transpose a 3-axis
\* raster from (H, W, bands) to (bands, H, W) exactly when its last axis is
\* smaller than its first and <= 5, leave it unchanged otherwise, and promote
\* a 2-axis raster to 1 x H x W. For crop_from_file the array is seen through
\* the crop: the shape check it passes or fails, the image the bounds were
\* clamped to and the bands of the crop handed to _save_crop.
C12_LoadersNormalizeAlike ==
    /\ (Returned("load_image") /\ req.ext \in TiffExts /\ out.ret = "tuple") =>
          /\ out.shape = BandMajor(req.shape)
          /\ out.axes = (IF Len(req.shape) = 2 THEN <<NewAxis, 0, 1>>
                         ELSE IF RowMajor(req.shape) THEN <<2, 0, 1>>
                         ELSE FileAxes(req.shape))
    /\ (Returned("crop_from_file") /\ out.stage # "read") =>
          /\ (out.stage = "shape") <=> (Len(BandMajor(req.shape)) # 3)
          /\ (out.stage # "shape") =>
                /\ out.bounds[3] <= BandMajor(req.shape)[3]
                /\ out.bounds[4] <= BandMajor(req.shape)[2]
          /\ (Handed /\ req.preserve_bands) =>
                out.handed.shape[1] = BandMajor(req.shape)[1]

\* C13: create_rgb_composite returns None whenever an index of the band triple
\* is >= the number of bands; with three indices in 0 .. bands-1 it returns an
\* array of H x W x 3 whose channels are, in the order (r, g, b) of the triple,
\* the H x W pixels of the selected bands (each normalized by normalize_band
\* unless normalize is false)
C13_CompositeChannels ==
    (Returned("create_rgb_composite") /\ Len(req.image.shape) = 3) =>
        LET bands == req.image.shape[1]
            idx   == req.band_indices
        IN  /\ (\E k \in 1..3 : idx[k] >= bands) =>
                  (out.ret = "None" /\ out.raised = "none" /\ out.channels = <<>>)
            /\ (\A k \in 1..3 : 0 <= idx[k] /\ idx[k] < bands) =>
                  /\ out.ret = "array" /\ out.raised = "none"
                  /\ out.shape = <<req.image.shape[2], req.image.shape[3], 3>>
                  /\ Len(out.channels) = 3
                  /\ \A k \in 1..3 :
                        /\ Len(out.channels[k]) = req.image.shape[2] * req.image.shape[3]
                        /\ out.channels[k] =
                              (IF req.normalize
                               THEN normalize_band(req.image.data[idx[k] + 1],
                                                   DefaultPercentiles, "value", "value").values
                               ELSE req.image.data[idx[k] + 1])

\* the natural-colour composite (2, 1, 0) of three different bands, raw
C13_Witness ==
    /\ Returned("create_rgb_composite")
    /\ req.band_indices = <<2, 1, 0>> /\ ~req.normalize
    /\ req.image.shape = <<3, 2, 2>>
    /\ req.image.data[1] # req.image.data[3]
    /\ out.ret = "array"
    /\ out.channels[1] = req.image.data[3] /\ out.channels[3] = req.image.data[1]

\* a quotient in [0, 1]
InUnitInterval(x) == x[2] > 0 /\ 0 <= x[1] /\ x[1] <= x[2]
\* a quotient equal to 0 (not 1, not 0/0)
IsZero(x) == x[2] > 0 /\ x[1] = 0
PercentilesValid(range) ==
    0 <= range[1] /\ range[1] <= 100 /\ 0 <= range[2] /\ range[2] <= 100

\* C14: normalize_band never raises and every value of its result lies in
\* [0, 1]; when the high percentile is not greater than the low one (a constant
\* band, e.g. all 42) the result is all zeros and no division is performed.
\* Stated for bands of integer pixel values.
C14_NormalizeBand ==
    Returned("normalize_band") =>
        /\ out.raised = "none"
        /\ Len(out.values) = Len(req.band)
        /\ \A i \in 1..Len(out.values) : InUnitInterval(out.values[i])
        /\ (/\ Len(req.band) > 0
            /\ PercentilesValid(req.percentile_range)
            /\ Percentile100(req.band, req.percentile_range[2])
                  <= Percentile100(req.band, req.percentile_range[1])) =>
              /\ ~out.divided
              /\ \A i \in 1..Len(out.values) : IsZero(out.values[i])
        /\ (/\ PercentilesValid(req.percentile_range)
            /\ Cardinality(Pixels(req.band)) = 1) =>
              /\ ~out.divided
              /\ \A i \in 1..Len(out.values) : IsZero(out.values[i])

\* the band of spec section 8, 42 everywhere, with the default percentiles
C14_Witness ==
    /\ Returned("normalize_band")
    /\ req.band = <<42, 42, 42, 42>>
    /\ req.percentile_range = DefaultPercentiles
    /\ ~out.divided
    /\ out.values = <<Zero, Zero, Zero, Zero>>

\* C15: _resize_crop applied to an array that is already target_size x
\* target_size returns its input unchanged; applied to an array of any other
\* row/column size it returns an array of shape (bands, target_size,
\* target_size) with the band count, the band order and the dtype of its
\* input. Stated for target_size >= 1 and an array with no empty axis.
C15_ResizeCrop ==
    (Returned("_resize_crop") /\ req.target_size >= 1) =>
        IF /\ req.crop_data.shape[2] = req.target_size
           /\ req.crop_data.shape[3] = req.target_size
        THEN out.exc = "none" /\ out.array = req.crop_data
        ELSE /\ out.exc = "none"
             /\ out.array.shape = <<req.crop_data.shape[1], req.target_size, req.target_size>>
             /\ out.array.bands = req.crop_data.bands
             /\ out.array.dtype = req.crop_data.dtype

\* a 16-bit crop of 2 bands, 3 x 4, resampled to 2 x 2
C15_Witness ==
    /\ Returned("_resize_crop")
    /\ req.crop_data.shape = <<2, 3, 4>> /\ req.crop_data.dtype = "uint16"
    /\ req.target_size = 2
    /\ out.exc = "none"
    /\ out.array.shape = <<2, 2, 2>> /\ out.array.dtype = "uint16"
    /\ out.array.bands = <<0, 1>>

(* ------------------------ claims on a session --------------------------- *)

\* a call of the session that failed: False from a crop, None from a composite
Failed(call) == call.out.ret \in {"False", "None"}
\* what the caller receives from a call: the value returned or the exception
Received(call) == [ret |-> call.out.ret, raised |-> call.out.raised]

\* C11: when a crop or a composite fails, what the caller receives identifies
\* the precondition that failed (shape, bounds or band index): two failures
\* with different causes hand the caller different results
C11_FailuresDistinguishable ==
    \A i \in 1..Len(log), j \in 1..Len(log) :
        (/\ Failed(log[i]) /\ Failed(log[j])
         /\ log[i].out.stage \in {"shape", "bounds", "index"}
         /\ log[j].out.stage \in {"shape", "bounds", "index"}
         /\ log[i].out.stage # log[j].out.stage)
        => Received(log[i]) # Received(log[j])

(* ---------------------- claims on the FileSelector ---------------------- *)

\* the last call ran _add_paths_to_selection: the call itself or a dialog
\* handler that reached it
CalledAdd ==
    \/ last_call.op \in {"_add_paths_to_selection", "select_single_file",
                         "select_multiple_files"}
    \/ /\ last_call.op = "select_folder"
       /\ _find_supported_image_files(last_call.new_paths[1]) # <<>>

NoDuplicates(paths) ==
    \A i \in 1..Len(paths), j \in 1..Len(paths) : paths[i] = paths[j] => i = j
\* paths begins with the list kept
StartsWith(paths, kept) ==
    /\ Len(kept) <= Len(paths)
    /\ \A i \in 1..Len(kept) : paths[i] = kept[i]
Occurrences(paths, path) == Cardinality({i \in 1..Len(paths) : paths[i] = path})

\* C17: with no active project, or nothing selected, _add_paths_to_selection
\* called with a non-empty list leaves selected_paths equal to that list and
\* selection_type equal to the new type, whatever was selected before; called
\* with an empty list it changes nothing
C17_ReplacesWithoutProject ==
    CalledAdd =>
        /\ (/\ last_call.new_paths # <<>>
            /\ (~last_call.active \/ last_call.before.selected_paths = <<>>)) =>
              /\ selected_paths = last_call.new_paths
              /\ selection_type = last_call.new_type
        /\ last_call.new_paths = <<>> => Current = last_call.before

\* two files were selected, no project is open, and one other file replaced them
C17_Witness ==
    /\ last_call.op = "_add_paths_to_selection"
    /\ ~last_call.active
    /\ last_call.before = Selection(<< <<"home", "f1", ".tif">>, <<"home", "f2", ".jpg">> >>,
                                    "multiple_files")
    /\ last_call.new_type = "single_file"
    /\ selected_paths = << <<"d1", "a", ".tif">> >>
    /\ selection_type = "single_file"

\* C18: with an active project and a non-empty file selection, a call that
\* adds files keeps every selected path (in its place), leaves each added
\* path in selected_paths exactly once, and selection_type is "multiple_files"
\* as soon as more than one path is selected; this after every call of any
\* sequence. The lists passed hold no path twice, as the dialogs return them.
C18_AddingFilesKeepsSelection ==
    (/\ CalledAdd
     /\ last_call.active
     /\ last_call.before.selected_paths # <<>>
     /\ last_call.before.selection_type \in FileTypes
     /\ last_call.new_type \in FileTypes
     /\ last_call.new_paths # <<>>)
    => (/\ StartsWith(selected_paths, last_call.before.selected_paths)
        /\ \A i \in 1..Len(last_call.new_paths) :
              Occurrences(selected_paths, last_call.new_paths[i]) = 1
        /\ Len(selected_paths) > 1 => selection_type = "multiple_files"
        /\ Len(selected_paths) = 1 => selection_type = last_call.before.selection_type)

\* the third file was added to two files already selected
C18_Witness ==
    /\ last_call.op = "_add_paths_to_selection"
    /\ last_call.active
    /\ last_call.before = Selection(<< <<"home", "f1", ".tif">>, <<"home", "f2", ".jpg">> >>,
                                    "multiple_files")
    /\ last_call.new_type = "single_file"
    /\ selected_paths = << <<"home", "f1", ".tif">>, <<"home", "f2", ".jpg">>,
                           <<"d1", "a", ".tif">> >>
    /\ selection_type = "multiple_files"

\* C19: with an active project and a selection of type "folder", adding files
\* replaces the folder by its supported image files, appends the new files
\* that are not among them and sets selection_type to "multiple_files": every
\* image file of the folder and every added file is in selected_paths, once
C19_FolderThenFiles ==
    (/\ CalledAdd
     /\ last_call.active
     /\ last_call.before.selection_type = "folder"
     /\ last_call.before.selected_paths # <<>>
     /\ last_call.new_type \in FileTypes
     /\ last_call.new_paths # <<>>)
    => LET folder == last_call.before.selected_paths[1]
           images == _find_supported_image_files(folder)
       IN  /\ selection_type = "multiple_files"
           /\ StartsWith(selected_paths, images)
           /\ ~Contains(selected_paths, folder)
           /\ \A i \in 1..Len(last_call.new_paths) :
                 Contains(selected_paths, last_call.new_paths[i])
           /\ NoDuplicates(selected_paths)
           /\ \A i \in 1..Len(selected_paths) :
                 \/ Contains(images, selected_paths[i])
                 \/ Contains(last_call.new_paths, selected_paths[i])

\* folder d1 was selected and a file of the home folder was added
C19_Witness ==
    /\ last_call.op = "_add_paths_to_selection"
    /\ last_call.active
    /\ last_call.before = Selection(<< <<"d1">> >>, "folder")
    /\ last_call.new_paths = << <<"home", "f1", ".tif">> >>
    /\ selected_paths = << <<"d1", "a", ".tif">>, <<"d1", "b", ".TIF">>,
                           <<"home", "f1", ".tif">> >>
    /\ selection_type = "multiple_files"

\* C20: with an active project and a file selection (single_file or
\* multiple_files), adding a folder keeps every selected file, appends the
\* supported image files of the folder that are not selected yet and sets
\* selection_type to "multiple_files"
C20_FilesThenFolder ==
    (/\ CalledAdd
     /\ last_call.active
     /\ last_call.before.selection_type \in FileTypes
     /\ last_call.before.selected_paths # <<>>
     /\ last_call.new_type = "folder"
     /\ last_call.new_paths # <<>>)
    => LET images == _find_supported_image_files(last_call.new_paths[1])
       IN  /\ selection_type = "multiple_files"
           /\ StartsWith(selected_paths, last_call.before.selected_paths)
           /\ \A i \in 1..Len(images) : Occurrences(selected_paths, images[i]) = 1
           /\ NoDuplicates(selected_paths)
           /\ \A i \in 1..Len(selected_paths) :
                 \/ Contains(last_call.before.selected_paths, selected_paths[i])
                 \/ Contains(images, selected_paths[i])

\* a file of folder d1 was selected and folder d1 was added
C20_Witness ==
    /\ last_call.op = "_add_paths_to_selection"
    /\ last_call.active
    /\ last_call.before = Selection(<< <<"d1", "a", ".tif">> >>, "single_file")
    /\ last_call.new_paths = << <<"d1">> >>
    /\ selected_paths = << <<"d1", "a", ".tif">>, <<"d1", "b", ".TIF">> >>
    /\ selection_type = "multiple_files"

(* ------------------- claims on the adjustment of bounds ----------------- *)

\* an edge put into [0, length]
ClampInto(edge, length) == max(0, min(length, edge))

\* the rule on one axis: the deficit below 0 goes to the high edge, else the
\* excess above the axis length is taken from the low edge, else the ideal
\* box stays; both edges are then put into [0, length]
ShiftRule(center, half, length) ==
    IF center - half < 0 THEN <<0, center + half + (0 - (center - half))>>
    ELSE IF center + half > length THEN <<center - half - (center + half - length), length>>
    ELSE <<center - half, center + half>>
AxisRule(center, crop_size, length) ==
    <<ClampInto(ShiftRule(center, crop_size \div 2, length)[1], length),
      ClampInto(ShiftRule(center, crop_size \div 2, length)[2], length)>>

\* the bounds _adjust_crop_bounds returned in the call that ended, if it ran
AdjustedBounds ==
    IF pc = "done" /\ req.op \in ArrayOps /\ out.adjusted THEN out.bounds
    ELSE IF Returned("get_crop_info") /\ ~out.is_valid THEN out.adjusted_bounds
    ELSE NoBounds

\* C21: for a request with crop_size > 0, _adjust_crop_bounds gives (x1, x2)
\* by the rule of one axis applied to (center_x, crop_size, img_width) and
\* (y1, y2) by the same rule applied to (center_y, crop_size, img_height):
\* deficit to the high edge, else excess from the low edge, else the ideal
\* box, both edges then within [0, axis length]
C21_AxesByOneRule ==
    (AdjustedBounds # NoBounds /\ req.crop_size > 0) =>
        /\ <<AdjustedBounds[1], AdjustedBounds[3]>>
              = AxisRule(req.center_x, req.crop_size, Width)
        /\ <<AdjustedBounds[2], AdjustedBounds[4]>>
              = AxisRule(req.center_y, req.crop_size, Height)

\* a 4 x 3 image and a crop of 4 centered on (0, 3): the deficit of 2 goes to
\* the high edge of the columns, the rows lose their excess and are clamped
C21_Witness ==
    /\ Returned("get_crop_info")
    /\ req.shape = <<1, 3, 4>>
    /\ req.center_x = 0 /\ req.center_y = 3 /\ req.crop_size = 4
    /\ ~out.is_valid
    /\ out.adjusted_bounds = <<0, 0, 4, 3>>

(* ---------------- claims on get_crop_info as a prediction --------------- *)

\* what get_crop_info answers for the request of the call
InfoOfRequest == get_crop_info(req.shape, req.center_x, req.center_y, req.crop_size)
\* what crop_multispectral_image does for the request when the write succeeds
CropOfRequest ==
    crop_multispectral_image([shape |-> req.shape, dtype |-> "uint16"],
                             req.center_x, req.center_y, req.crop_size, TRUE, "saved")

\* C22: for a 3-axis shape and every center and crop_size, can_adjust of
\* get_crop_info is True exactly when crop_multispectral_image passes its
\* bounds check, adjusted_bounds are then the bounds it slices with, and
\* (for crop_size > 0) the crop succeeds unless the write fails
C22_InfoPredictsCrop ==
    /\ (Returned("crop_multispectral_image") /\ Len(req.shape) = 3) =>
          /\ InfoOfRequest.can_adjust <=> Sliced
          /\ Sliced => InfoOfRequest.adjusted_bounds = out.bounds
          /\ (InfoOfRequest.can_adjust /\ req.crop_size > 0) => Handed
          /\ (InfoOfRequest.can_adjust /\ req.crop_size > 0 /\ out.stage # "write")
                => out.ret = "True"
    /\ Returned("get_crop_info") =>
          /\ out.can_adjust <=> CropOfRequest.stage \in {"resize", "write", "ok"}
          /\ out.can_adjust => out.adjusted_bounds = CropOfRequest.bounds
          /\ (out.can_adjust /\ req.crop_size > 0) => CropOfRequest.ret = "True"

\* a crop of 4 centered on the corner (0, 0) of a 4 x 4 image: adjusted to the
\* whole image, as get_crop_info says, and saved
C22_Witness ==
    /\ Returned("crop_multispectral_image")
    /\ req.shape = <<2, 4, 4>>
    /\ req.center_x = 0 /\ req.center_y = 0 /\ req.crop_size = 4
    /\ out.adjusted /\ out.ret = "True"
    /\ out.bounds = <<0, 0, 4, 4>>
    /\ InfoOfRequest.can_adjust /\ ~InfoOfRequest.is_valid
    /\ InfoOfRequest.adjusted_bounds = <<0, 0, 4, 4>>

(* -------------------- claims on the three normalizers ------------------- *)

\* two results hold the same numbers: neither is NaN and the quotients agree
SameValues(a, b) ==
    /\ Len(a) = Len(b)
    /\ \A i \in 1..Len(a) :
          a[i][2] > 0 /\ b[i][2] > 0 /\ a[i][1] * b[i][2] = b[i][1] * a[i][2]

\* the percentiles 2 and 98 of the band coincide
Degenerate(band) == Percentile100(band, 98) <= Percentile100(band, 2)

\* what ImageUtils.normalize_band gives for the band with (2, 98)
ByImageUtils == normalize_band(req.band, DefaultPercentiles, "value", "value")

\* C23: for every non-empty band, CoordinateViewer._normalize_band and
\* SuperpixelGenerator._normalize_band give the values
\* ImageUtils.normalize_band gives with (2, 98); a band whose two percentiles
\* coincide is mapped to all zeros by each of them without a division by zero
C23_NormalizersAgree ==
    (/\ pc = "done"
     /\ req.op \in {"CoordinateViewer._normalize_band", "SuperpixelGenerator._normalize_band"}
     /\ Len(req.band) > 0)
    => /\ out.raised = "none"
       /\ SameValues(out.values, ByImageUtils.values)
       /\ Degenerate(req.band) =>
             /\ ~out.divided
             /\ \A i \in 1..Len(out.values) : IsZero(out.values[i])

(* --------------------- claims on the ProjectManager --------------------- *)

\* the step is a call of the manager's operation op
CallOf(op) == history'.calls = history.calls + 1 /\ history'.last.op = op

\* C24: a successful add_source_images keeps every path of
\* source_info['paths'] in its place, adds every new path, lists no path
\* twice and nothing else, and sets source_info['count'] to the number of
\* paths; with no current project or an empty list it returns False and
\* changes neither the manager nor the directory. The lists given at creation
\* and added later hold no path twice, as the file selector gives them.
C24_SourcesCombined ==
    [][CallOf("add_source_images") =>
         /\ (manager.current_project = None \/ history'.last.arg = <<>>) =>
               /\ history'.last.ret = "False"
               /\ manager' = manager
               /\ projects_dir' = projects_dir
         /\ history'.last.ret = "True" =>
               /\ StartsWith(manager'.project_metadata.source_info.paths,
                             manager.project_metadata.source_info.paths)
               /\ \A i \in 1..Len(history'.last.arg) :
                     Contains(manager'.project_metadata.source_info.paths,
                              history'.last.arg[i])
               /\ NoDuplicates(manager'.project_metadata.source_info.paths)
               /\ \A i \in 1..Len(manager'.project_metadata.source_info.paths) :
                     \/ Contains(manager.project_metadata.source_info.paths,
                                 manager'.project_metadata.source_info.paths[i])
                     \/ Contains(history'.last.arg,
                                 manager'.project_metadata.source_info.paths[i])
               /\ manager'.project_metadata.source_info.count
                     = Len(manager'.project_metadata.source_info.paths)
    ]_vars

\* folder d1 and file f1 were added to a project that listed f1 already: f1
\* keeps the first place and is listed once
C24_Witness ==
    /\ history.last.op = "add_source_images"
    /\ history.last.ret = "True"
    /\ history.last.arg = << <<"d1">>, <<"home", "f1", ".tif">> >>
    /\ manager.project_metadata.source_info.paths = << <<"home", "f1", ".tif">>, <<"d1">> >>
    /\ manager.project_metadata.source_info.count = 2

\* cleanup_empty_project deleted the directory of the current project
Deletes ==
    /\ CallOf("cleanup_empty_project")
    /\ exists(projects_dir, manager.current_project_path)
    /\ ~exists(projects_dir', manager.current_project_path)

\* the directory of the current project holds a recorded crop and was loaded,
\* holds a .tif or .tiff file in crops/, or holds a file in originals/
NotEmpty ==
    \/ manager.current_project_path \in history.loaded
    \/ tiff_files(Entry(projects_dir, manager.current_project_path).crops) # {}
    \/ Entry(projects_dir, manager.current_project_path).originals # {}

\* C25 as stated: cleanup_empty_project never deletes a project for which
\* mark_crop_saved was called at any time, nor one loaded with a recorded
\* crop, nor one with a .tif/.tiff file in crops/ or a file in originals/.
C25_NeverDeletesMarked ==
    [][Deletes => /\ manager.current_project_path \notin history.marked
                  /\ ~NotEmpty]_vars

\* C25 amended: cleanup_empty_project never deletes a project for which
\* mark_crop_saved was called since it last became the current project, nor
\* one loaded with a recorded crop, nor one with a .tif/.tiff file in crops/
\* or a file in originals/.
C25_NeverDeletesMarkedCurrent ==
    [][Deletes => /\ ~history.marked_current
                  /\ ~NotEmpty]_vars

\* a cleanup deleted an empty project; another cleanup left a marked one
C25_Witness ==
    /\ history.last.op = "cleanup_empty_project"
    /\ history.marked_current
    /\ manager.current_project_path \in history.created
    /\ exists(projects_dir, manager.current_project_path)
    /\ Entry(projects_dir, manager.current_project_path).crops = {}
    /\ Entry(projects_dir, manager.current_project_path).originals = {}

\* create_project returned the path of a new project
CreatedPath ==
    /\ CallOf("create_project")
    /\ history'.last.raised = "none"

\* the name is the sanitized name when that is free, and otherwise the
\* sanitized name with the first counter n = 1, 2, ... that is free
FirstFreeName(dir, safe_name, name) ==
    IF ~exists(dir, safe_name) THEN name = safe_name
    ELSE \E n \in 1..(Cardinality(dir) + 1) :
            /\ name = numbered(safe_name, n)
            /\ \A m \in 1..(n - 1) : exists(dir, numbered(safe_name, m))

\* C26: create_project never reuses an existing directory: it takes the
\* sanitized name or the first free '<name>_<n>', the paths of the projects
\* created are pairwise distinct (while no directory was deleted), and every
\* earlier entry of projects_dir, its metadata file included, is as before.
C26_NeverReusesDirectory ==
    [][CreatedPath =>
         /\ ~exists(projects_dir, history'.last.ret)
         /\ is_dir(projects_dir', history'.last.ret)
         /\ manager'.current_project_path = history'.last.ret
         /\ projects_dir \subseteq projects_dir'
         /\ history.deleted = {} => history'.last.ret \notin history.created
         /\ (history'.last.arg # None /\ sanitize(history'.last.arg) # <<>>)
               => FirstFreeName(projects_dir, sanitize(history'.last.arg),
                                history'.last.ret)
    ]_vars

\* "a" was asked for three times, with "a_1" taken in between
C26_Witness ==
    /\ history.last.op = "create_project"
    /\ history.last.arg = <<"a">>
    /\ history.last.ret = <<"a", "_", "2">>
    /\ history.created = {<<"a">>, <<"a", "_", "1">>, <<"a", "_", "2">>}
    /\ Cardinality(projects_dir) = 3

\* the current project was created by create_project of this manager
CreatedHere(mgr, created) ==
    /\ mgr.current_project # None
    /\ mgr.current_project_path \in created

\* project_metadata['statistics']['total_crops'] = len(project_metadata['crops'])
CropsCounted(mgr) ==
    mgr.project_metadata.total_crops = Len(mgr.project_metadata.crops)

\* C27: for a project created by create_project, total_crops equals the
\* number of crops recorded after every operation, add_crop raises both by
\* exactly one, and add_crop with no current project changes nothing.
C27_TotalCropsCounted ==
    [][/\ CreatedHere(manager', history'.created) => CropsCounted(manager')
       /\ (CallOf("add_crop") /\ CreatedHere(manager, history.created)) =>
             /\ Len(manager'.project_metadata.crops)
                   = Len(manager.project_metadata.crops) + 1
             /\ manager'.project_metadata.total_crops
                   = manager.project_metadata.total_crops + 1
             /\ manager'.project_metadata.crops[Len(manager'.project_metadata.crops)].crop_path
                   = history'.last.arg
       /\ (CallOf("add_crop") /\ manager.current_project = None) =>
             /\ manager' = manager
             /\ projects_dir' = projects_dir
    ]_vars

\* the second crop of a created project was recorded
C27_Witness ==
    /\ history.last.op = "add_crop"
    /\ CreatedHere(manager, history.created)
    /\ Len(manager.project_metadata.crops) = 2
    /\ manager.project_metadata.total_crops = 2

\* C28: a load_project that returns False leaves current_project,
\* current_project_path, project_metadata, images_loaded and crops_saved as
\* they were; one that returns True makes the loaded project the current one
\* and sets crops_saved exactly when the metadata record at least one crop.
C28_FailedLoadKeepsState ==
    [][CallOf("load_project") =>
         /\ history'.last.ret = "False" => manager' = manager
         /\ history'.last.ret = "True" =>
               /\ manager'.current_project_path = history'.last.arg
               /\ manager'.project_metadata.json = "dict"
               /\ ~manager'.images_loaded
               /\ manager'.crops_saved = (Len(manager'.project_metadata.crops) > 0)
    ]_vars

\* C29: after any sequence of select_single_file, select_multiple_files,
\* select_folder and clear_selection, selection_type is 'none' exactly when
\* selected_paths is empty, and 'single_file' or 'folder' means that
\* selected_paths holds exactly one path.
C29_TypeMatchesPaths ==
    /\ (selection_type = "none") <=> (selected_paths = <<>>)
    /\ selection_type \in {"single_file", "folder"} => Len(selected_paths) = 1

\* a single file was picked again into a project's single-file selection, and
\* the selection is still that one file
C29_Witness ==
    /\ last_call.op = "select_single_file"
    /\ last_call.active
    /\ last_call.before.selection_type = "single_file"
    /\ last_call.new_paths = last_call.before.selected_paths
    /\ selection_type = "single_file"
    /\ Len(selected_paths) = 1

\* the number of activities of a type in the list
Logged_of(activities, activity_type) ==
    Cardinality({i \in 1..Len(activities) : activities[i].type = activity_type})

\* C30: the activities list holds one entry per log_activity call, in call
\* order, and the four counters equal the numbers of activities of their
\* types, also for activities logged after end_session.
C30_CountersMatchActivities ==
    /\ Len(logger.activities) = Len(logger.calls)
    /\ \A i \in 1..Len(logger.calls) :
          /\ logger.activities[i].type = logger.calls[i].type
          /\ logger.activities[i].details = logger.calls[i].details
    /\ logger.statistics.images_loaded = Logged_of(logger.activities, "image_loaded")
    /\ logger.statistics.crops_created = Logged_of(logger.activities, "crop_created")
    /\ logger.statistics.view_mode_changes
          = Logged_of(logger.activities, "view_mode_changed")
    /\ logger.statistics.coordinates_selected
          = Logged_of(logger.activities, "coordinate_selected")

\* an image was logged after end_session, and a crop before it
C30_Witness ==
    /\ Len(logger.activities) = 4
    /\ logger.activities[1].type = "session_start"
    /\ logger.activities[2].type = "crop_created"
    /\ logger.activities[3].type = "session_end"
    /\ logger.activities[4].type = "image_loaded"
    /\ logger.statistics.images_loaded = 1
    /\ logger.statistics.crops_created = 1
    /\ logger.end_time

====
